---- MODULE Spec2Model ----
(***************************************************************************)
(* prime-agent: skill store / AGENTS.md synchronisation (src/src/sync.rs)  *)
(* and the commands of src/src/main.rs that drive it.                      *)
(*                                                                         *)
(* A text is a sequence of tokens.  A token is a one-character string      *)
(* ("x", "\n", "\r") or an indivisible string that stands for the bytes of *)
(* a marker or heading of a document ("<!-- prime-agent(Start a) -->").    *)
(***************************************************************************)
EXTENDS Integers, Sequences, FiniteSets, TLC

\* ------------------------------------------------------------------------
\* Bounds of the model
\* ------------------------------------------------------------------------
MaxLen == 3        \* longest text of the exhaustive family of small texts
MaxPre == 4        \* longest run of unchanged lines before the first change
MaxGap == 7        \* longest run of unchanged lines between two changes
MaxInput == 2      \* longest prefix of stdin lines before end of input
MaxDocLines == 5   \* most lines of a document given to parse
MaxGetNames == 2    \* most names given to the get command
MaxSections == 2   \* most sections of a document given to run_sync
MaxStoreOps == 5   \* most operations on a Skill Store taken alone
MaxPrograms == 3   \* most candidate programs of one command
MaxGates == 2      \* most configured gates
MaxFailures == 2   \* most failures before every action succeeds

Min(a, b) == IF a < b THEN a ELSE b
Max(a, b) == IF a > b THEN a ELSE b

\* saturating_sub of usize
saturating_sub(a, b) == IF a > b THEN a - b ELSE 0

RECURSIVE Flatten(_)
Flatten(ss) == IF ss = << >> THEN << >> ELSE Head(ss) \o Flatten(Tail(ss))

Repeat(x, n) == [i \in 1..n |-> x]

\* ------------------------------------------------------------------------
\* Lines of a text: similar::TextDiff::from_lines tokenises both texts into
\* lines that keep their terminator ("\n", "\r\n" or a lone "\r").
\* ------------------------------------------------------------------------
RECURSIVE tokenize_from(_, _, _)
tokenize_from(s, i, last_pos) ==
    IF i > Len(s)
    THEN IF last_pos <= Len(s) THEN << SubSeq(s, last_pos, Len(s)) >> ELSE << >>
    ELSE IF s[i] = "\r"
         THEN IF i < Len(s) /\ s[i + 1] = "\n"
              THEN << SubSeq(s, last_pos, i + 1) >> \o tokenize_from(s, i + 2, i + 2)
              ELSE << SubSeq(s, last_pos, i) >> \o tokenize_from(s, i + 1, i + 1)
         ELSE IF s[i] = "\n"
              THEN << SubSeq(s, last_pos, i) >> \o tokenize_from(s, i + 1, i + 1)
              ELSE tokenize_from(s, i + 1, last_pos)

tokenize_lines(s) == tokenize_from(s, 1, 1)

\* ------------------------------------------------------------------------
\* normalize_content: CRLF -> LF, then strip every trailing "\n"
\* ------------------------------------------------------------------------
RECURSIVE replace_crlf(_)
replace_crlf(s) ==
    IF s = << >> THEN << >>
    ELSE IF Len(s) >= 2 /\ s[1] = "\r" /\ s[2] = "\n"
         THEN << "\n" >> \o replace_crlf(SubSeq(s, 3, Len(s)))
         ELSE << s[1] >> \o replace_crlf(Tail(s))

RECURSIVE trim_end_newlines(_)
trim_end_newlines(s) ==
    IF s # << >> /\ s[Len(s)] = "\n"
    THEN trim_end_newlines(SubSeq(s, 1, Len(s) - 1))
    ELSE s

normalize_content(content) == trim_end_newlines(replace_crlf(content))

\* ------------------------------------------------------------------------
\* Line diff (similar::TextDiff::from_lines ... .ops()): a shortest edit
\* script over the lines, captured as DiffOps.  Every run of deletions and
\* insertions between two unchanged runs is one Delete, Insert or Replace
\* op; indices are 0-based as in the library.
\* ------------------------------------------------------------------------
RECURSIVE edit_script(_, _)
edit_script(old, new) ==
    IF old = << >> THEN Repeat("Insert", Len(new))
    ELSE IF new = << >> THEN Repeat("Delete", Len(old))
    ELSE IF Head(old) = Head(new)
         THEN << "Equal" >> \o edit_script(Tail(old), Tail(new))
         ELSE LET d == edit_script(Tail(old), new)
                  i == edit_script(old, Tail(new))
              IN  IF Len(d) <= Len(i) THEN << "Delete" >> \o d
                                      ELSE << "Insert" >> \o i

DiffOp(tag, oi, ol, ni, nl) ==
    [tag |-> tag, old_index |-> oi, old_len |-> ol, new_index |-> ni, new_len |-> nl]

\* number of leading tags of script (from position k) that satisfy the test
RECURSIVE run_len(_, _, _)
run_len(script, k, eq) ==
    IF k > Len(script) \/ ((script[k] = "Equal") # eq) THEN 0
    ELSE 1 + run_len(script, k + 1, eq)

CountTag(script, from, to, tag) ==
    Cardinality({k \in from..to : script[k] = tag})

RECURSIVE capture_ops(_, _, _, _)
capture_ops(script, k, oi, ni) ==
    IF k > Len(script) THEN << >>
    ELSE IF script[k] = "Equal"
         THEN LET n == run_len(script, k, TRUE)
              IN  << DiffOp("Equal", oi, n, ni, n) >>
                  \o capture_ops(script, k + n, oi + n, ni + n)
         ELSE LET n  == run_len(script, k, FALSE)
                  dl == CountTag(script, k, k + n - 1, "Delete")
                  il == CountTag(script, k, k + n - 1, "Insert")
                  tag == IF il = 0 THEN "Delete"
                         ELSE IF dl = 0 THEN "Insert" ELSE "Replace"
              IN  << DiffOp(tag, oi, dl, ni, il) >>
                  \o capture_ops(script, k + n, oi + dl, ni + il)

diff_ops(old_lines, new_lines) ==
    capture_ops(edit_script(old_lines, new_lines), 1, 0, 0)

\* ------------------------------------------------------------------------
\* similar::group_diff_ops(ops, n) as called by diff.grouped_ops(3):
\* a leading and a trailing Equal op are cut down to n lines, an Equal op
\* longer than 2n ends the group after n lines and starts the next group
\* with its last n lines, a group holding only one Equal op is dropped.
\* ------------------------------------------------------------------------
ContextRadius == 3

trim_first(ops, n) ==
    IF ops # << >> /\ ops[1].tag = "Equal"
    THEN LET offset == saturating_sub(ops[1].old_len, n)
         IN  [ops EXCEPT ![1] = DiffOp("Equal", @.old_index + offset, @.old_len - offset,
                                       @.new_index + offset, @.new_len - offset)]
    ELSE ops

trim_last(ops, n) ==
    IF ops # << >> /\ ops[Len(ops)].tag = "Equal"
    THEN LET cut == saturating_sub(ops[Len(ops)].old_len, n)
         IN  [ops EXCEPT ![Len(ops)] = DiffOp("Equal", @.old_index, @.old_len - cut,
                                              @.new_index, @.new_len - cut)]
    ELSE ops

\* a grouping that splits at every unchanged run longer than n lines
RECURSIVE group_loop_near(_, _, _, _)
group_loop_near(ops, k, pending_group, n) ==
    IF k > Len(ops)
    THEN IF pending_group = << >>
            \/ (Len(pending_group) = 1 /\ pending_group[1].tag = "Equal")
         THEN << >>
         ELSE << pending_group >>
    ELSE LET op == ops[k]
         IN  IF op.tag = "Equal" /\ op.old_len > n
             THEN LET offset == saturating_sub(op.old_len, n)
                  IN  << Append(pending_group,
                                DiffOp("Equal", op.old_index, n, op.new_index, n)) >>
                      \o group_loop_near(ops, k + 1,
                                         << DiffOp("Equal", op.old_index + offset,
                                                   op.old_len - offset,
                                                   op.new_index + offset,
                                                   op.new_len - offset) >>, n)
             ELSE group_loop_near(ops, k + 1, Append(pending_group, op), n)

RECURSIVE group_loop(_, _, _, _)
group_loop(ops, k, pending_group, n) ==
    IF k > Len(ops)
    THEN IF pending_group = << >>
            \/ (Len(pending_group) = 1 /\ pending_group[1].tag = "Equal")
         THEN << >>
         ELSE << pending_group >>
    ELSE LET op == ops[k]
         IN  IF op.tag = "Equal" /\ op.old_len > n * 2
             THEN LET offset == saturating_sub(op.old_len, n)
                  IN  << Append(pending_group,
                                DiffOp("Equal", op.old_index, n, op.new_index, n)) >>
                      \o group_loop(ops, k + 1,
                                    << DiffOp("Equal", op.old_index + offset,
                                              op.old_len - offset,
                                              op.new_index + offset,
                                              op.new_len - offset) >>, n)
             ELSE group_loop(ops, k + 1, Append(pending_group, op), n)

group_diff_ops(ops, n) ==
    IF ops = << >> THEN << >>
    ELSE group_loop(trim_last(trim_first(ops, n), n), 1, << >>, n)

\* ------------------------------------------------------------------------
\* diff.iter_changes(op): the tagged lines of one op, deletions of a
\* Replace before its insertions.
\* ------------------------------------------------------------------------
Change(tag, value) == [tag |-> tag, value |-> value]

iter_changes(old_lines, new_lines, op) ==
    LET olds(tag) == [i \in 1..op.old_len |-> Change(tag, old_lines[op.old_index + i])]
        news(tag) == [i \in 1..op.new_len |-> Change(tag, new_lines[op.new_index + i])]
    IN  CASE op.tag = "Equal"   -> olds("Equal")
          [] op.tag = "Delete"  -> olds("Delete")
          [] op.tag = "Insert"  -> news("Insert")
          [] op.tag = "Replace" -> olds("Delete") \o news("Insert")

RECURSIVE group_changes(_, _, _)
group_changes(old_lines, new_lines, group) ==
    IF group = << >> THEN << >>
    ELSE iter_changes(old_lines, new_lines, Head(group))
         \o group_changes(old_lines, new_lines, Tail(group))

\* ------------------------------------------------------------------------
\* prompt_choice: read lines of stdin until one is a choice; a read of zero
\* bytes (end of input) is an error.  stdin is the sequence of lines still
\* to be read; answer(line) is line.trim().to_ascii_lowercase().
\* ------------------------------------------------------------------------
StdinLines == {"s", "A", "?"}

answer(line) ==
    CASE line = "A" -> "a"
      [] OTHER -> line

\* a prompt that reads one line and takes whatever is not 's' for 'a'
prompt_choice_once(input) ==
    IF input = << >>
    THEN [ok |-> FALSE, choice |-> "None", rest |-> << >>]
    ELSE IF answer(Head(input)) \in {"s", "skill"}
         THEN [ok |-> TRUE, choice |-> "Skill", rest |-> Tail(input)]
         ELSE [ok |-> TRUE, choice |-> "Agents", rest |-> Tail(input)]

RECURSIVE prompt_choice(_)
prompt_choice(input) ==
    IF input = << >>
    THEN [ok |-> FALSE, choice |-> "None", rest |-> << >>]
    ELSE CASE answer(Head(input)) \in {"s", "skill"} ->
                [ok |-> TRUE, choice |-> "Skill", rest |-> Tail(input)]
           [] answer(Head(input)) \in {"a", "agents"} ->
                [ok |-> TRUE, choice |-> "Agents", rest |-> Tail(input)]
           [] OTHER -> prompt_choice(Tail(input))

\* ------------------------------------------------------------------------
\* resolve_conflicts_interactive(name, skill_content, agents_content) with
\* the lines of stdin it reads made an argument.  The result carries the
\* resolved text, the unread rest of stdin and the choices obtained.
\* ------------------------------------------------------------------------
\* a choice that keeps the lines of the other side
kept_swapped(change, choice) ==
    CASE change.tag = "Equal"  -> TRUE
      [] change.tag = "Delete" -> choice = "Agents"
      [] change.tag = "Insert" -> choice = "Skill"

kept(change, choice) ==
    CASE change.tag = "Equal"  -> TRUE
      [] change.tag = "Delete" -> choice = "Skill"
      [] change.tag = "Insert" -> choice = "Agents"

RECURSIVE push_kept(_, _)
push_kept(changes, choice) ==
    IF changes = << >> THEN << >>
    ELSE (IF kept(Head(changes), choice) THEN Head(changes).value ELSE << >>)
         \o push_kept(Tail(changes), choice)

RECURSIVE resolve_groups(_, _, _, _, _, _)
resolve_groups(old_lines, new_lines, groups, input, resolved, choices) ==
    IF groups = << >>
    THEN [ok |-> TRUE, text |-> resolved, rest |-> input, choices |-> choices]
    ELSE LET p == prompt_choice(input)
         IN  IF ~p.ok
             THEN [ok |-> FALSE, text |-> << >>, rest |-> << >>, choices |-> choices]
             ELSE resolve_groups(old_lines, new_lines, Tail(groups), p.rest,
                      resolved \o push_kept(group_changes(old_lines, new_lines,
                                                          Head(groups)), p.choice),
                      Append(choices, p.choice))

resolve_conflicts_interactive(skill_content, agents_content, input) ==
    LET old_lines == tokenize_lines(skill_content)
        new_lines == tokenize_lines(agents_content)
        ops == diff_ops(old_lines, new_lines)
    IN  IF ops = << >>
        THEN [ok |-> TRUE, text |-> skill_content, rest |-> input, choices |-> << >>]
        ELSE resolve_groups(old_lines, new_lines, group_diff_ops(ops, ContextRadius),
                            input, << >>, << >>)

\* ------------------------------------------------------------------------
\* Skill names.  NameOrder lists every name of the model in the
\* lexicographic order of Rust strings (the order of a BTreeSet).
\* validate_name rejects a name that is empty, holds a path separator or
\* holds "..".
\* ------------------------------------------------------------------------
NameOrder == << "a", "a/x", "b" >>

AllNames == {NameOrder[i] : i \in 1..Len(NameOrder)}

validate_name(name) == name \in {"a", "b"}

ValidNames == {n \in AllNames : validate_name(n)}

\* ------------------------------------------------------------------------
\* Document model (agents_md).  Marker and heading lines are single tokens.
\* ------------------------------------------------------------------------
StartMarker(name) == "<!-- prime-agent(Start " \o name \o ") -->"

EndMarker(name) == "<!-- prime-agent(End " \o name \o ") -->"

Heading(name) == "## " \o name

IsStart(tok) == \E n \in AllNames : tok = StartMarker(n)

IsEnd(tok) == \E n \in AllNames : tok = EndMarker(n)

StartName(tok) == CHOOSE n \in AllNames : tok = StartMarker(n)

EndName(tok) == CHOOSE n \in AllNames : tok = EndMarker(n)

\* the lines of a document, each with its "\n" when it has one
RECURSIVE doc_lines_from(_, _, _)
doc_lines_from(s, i, last_pos) ==
    IF i > Len(s)
    THEN IF last_pos <= Len(s) THEN << SubSeq(s, last_pos, Len(s)) >> ELSE << >>
    ELSE IF s[i] = "\n"
         THEN << SubSeq(s, last_pos, i) >> \o doc_lines_from(s, i + 1, i + 1)
         ELSE doc_lines_from(s, i + 1, last_pos)

doc_lines(s) == doc_lines_from(s, 1, 1)

line_end(line) == IF line # << >> /\ line[Len(line)] = "\n" THEN << "\n" >> ELSE << >>

line_body(line) == SubSeq(line, 1, Len(line) - Len(line_end(line)))

FreeText(text) == [kind |-> "FreeText", name |-> "", text |-> text, end |-> << >>]

\* content: the lines between the markers, the heading line included;
\* end: the terminator observed after the End marker
Section(name, content, end) ==
    [kind |-> "Section", name |-> name, text |-> content, end |-> end]

ParseError == [ok |-> FALSE, segments |-> << >>]

\* the scan without the test at the end of the input: a section still open
\* there is taken for free text
RECURSIVE parse_loop_open_end(_, _, _, _, _, _)
parse_loop_open_end(lines, k, in_section, name, acc, segments) ==
    IF k > Len(lines)
    THEN [ok |-> TRUE,
          segments |-> IF acc = << >> THEN segments ELSE Append(segments, FreeText(acc))]
    ELSE LET line == lines[k]
             body == line_body(line)
             marker == IF Len(body) = 1 THEN body[1] ELSE ""
         IN  IF ~in_section
             THEN IF IsStart(marker)
                  THEN parse_loop_open_end(lines, k + 1, TRUE, StartName(marker), << >>,
                                           Append(segments, FreeText(acc)))
                  ELSE IF IsEnd(marker) THEN ParseError
                  ELSE parse_loop_open_end(lines, k + 1, FALSE, name, acc \o line, segments)
             ELSE IF IsEnd(marker)
                  THEN IF EndName(marker) = name
                       THEN parse_loop_open_end(lines, k + 1, FALSE, "", << >>,
                                Append(segments, Section(name, acc, line_end(line))))
                       ELSE ParseError
                  ELSE IF IsStart(marker) THEN ParseError
                  ELSE parse_loop_open_end(lines, k + 1, TRUE, name, acc \o line, segments)

RECURSIVE parse_loop(_, _, _, _, _, _)
parse_loop(lines, k, in_section, name, acc, segments) ==
    IF k > Len(lines)
    THEN IF in_section THEN ParseError
         ELSE [ok |-> TRUE,
               segments |-> IF acc = << >> THEN segments
                            ELSE Append(segments, FreeText(acc))]
    ELSE LET line == lines[k]
             body == line_body(line)
             marker == IF Len(body) = 1 THEN body[1] ELSE ""
         IN  IF ~in_section
             THEN IF IsStart(marker)
                  THEN parse_loop(lines, k + 1, TRUE, StartName(marker), << >>,
                                  Append(segments, FreeText(acc)))
                  ELSE IF IsEnd(marker) THEN ParseError
                  ELSE parse_loop(lines, k + 1, FALSE, name, acc \o line, segments)
             ELSE IF IsEnd(marker)
                  THEN IF EndName(marker) = name
                       THEN parse_loop(lines, k + 1, FALSE, "", << >>,
                                Append(segments, Section(name, acc, line_end(line))))
                       ELSE ParseError
                  ELSE IF IsStart(marker) THEN ParseError
                  ELSE parse_loop(lines, k + 1, TRUE, name, acc \o line, segments)

parse(text) == parse_loop(doc_lines(text), 1, FALSE, "", << >>, << >>)

\* render that always ends the End marker line with a newline
render_segment_newline(seg) ==
    IF seg.kind = "FreeText" THEN seg.text
    ELSE << StartMarker(seg.name), "\n" >> \o seg.text \o << EndMarker(seg.name), "\n" >>

render_segment(seg) ==
    IF seg.kind = "FreeText" THEN seg.text
    ELSE << StartMarker(seg.name), "\n" >> \o seg.text \o << EndMarker(seg.name) >> \o seg.end

RECURSIVE render(_)
render(segments) ==
    IF segments = << >> THEN << >>
    ELSE render_segment(Head(segments)) \o render(Tail(segments))

SectionIndexes(segments) == {i \in 1..Len(segments) : segments[i].kind = "Section"}

section_names(segments) ==
    LET idx == SectionIndexes(segments)
        RECURSIVE names_from(_)
        names_from(i) ==
            IF i > Len(segments) THEN << >>
            ELSE (IF i \in idx THEN << segments[i].name >> ELSE << >>) \o names_from(i + 1)
    IN  names_from(1)

has_section(segments, name) == \E i \in SectionIndexes(segments) : segments[i].name = name

first_index(segments, name) ==
    CHOOSE i \in SectionIndexes(segments) :
        /\ segments[i].name = name
        /\ \A j \in SectionIndexes(segments) : segments[j].name = name => i <= j

get_section(segments, name) == segments[first_index(segments, name)]

strip_heading(name, content) ==
    IF Len(content) >= 2 /\ content[1] = Heading(name) /\ content[2] = "\n"
    THEN SubSeq(content, 3, Len(content))
    ELSE content

strip_last_terminator(s) ==
    IF Len(s) >= 2 /\ s[Len(s) - 1] = "\r" /\ s[Len(s)] = "\n" THEN SubSeq(s, 1, Len(s) - 2)
    ELSE IF Len(s) >= 1 /\ s[Len(s)] = "\n" THEN SubSeq(s, 1, Len(s) - 1)
    ELSE s

content_string(section) == strip_last_terminator(strip_heading(section.name, section.text))

from_content(name, content) ==
    Section(name,
            << Heading(name), "\n" >> \o content
                \o (IF content = << >> \/ content[Len(content)] = "\n"
                    THEN << >> ELSE << "\n" >>),
            << "\n" >>)

\* an upsert that appends whether or not the name has a section
upsert_section_appends(segments, section) ==
    segments \o (IF segments = << >> THEN << >> ELSE << FreeText(<< "\n" >>) >>)
             \o << section >>

upsert_section(segments, section) ==
    IF has_section(segments, section.name)
    THEN [segments EXCEPT ![first_index(segments, section.name)] = section]
    ELSE segments \o (IF segments = << >> THEN << >> ELSE << FreeText(<< "\n" >>) >>)
                  \o << section >>

\* removal of every section of the name
remove_section_all(segments, name) ==
    [found |-> has_section(segments, name),
     segments |-> SelectSeq(segments, LAMBDA seg : ~(seg.kind = "Section" /\ seg.name = name))]

\* remove_section(name): the first section of the name leaves the list of
\* segments; the result tells whether there was one
remove_section(segments, name) ==
    IF has_section(segments, name)
    THEN LET i == first_index(segments, name)
         IN  [found |-> TRUE,
              segments |-> SubSeq(segments, 1, i - 1) \o SubSeq(segments, i + 1, Len(segments))]
    ELSE [found |-> FALSE, segments |-> segments]

\* ------------------------------------------------------------------------
\* State
\* ------------------------------------------------------------------------
VARIABLES
    \* one call of resolve_conflicts_interactive
    skill_content,    \* the local text (the skill)
    agents_content,   \* the remote text (the document section)
    input,            \* the lines stdin holds for the call
    resolution,       \* the result of the call
    rpc,              \* "call" before the call, "returned" after it, "off"
    \* one document taken through AgentsDoc::parse and render
    doc_text,         \* the text given to parse
    doc,              \* the result of parse: [ok, segments]
    rendered,         \* the text render returned
    removal,          \* the remove_section call made: [name, found, segments]
    upsert,           \* the upsert_section call made: [section, segments]
    dpc,              \* "parse", "render", "done", "removed", "rejected", "off"
    \* the skill store, the document file and the repository of the store
    skills,           \* SkillsStore: name -> content, for the skills that exist
    agents_file,      \* AGENTS.md: [exists, text]
    git,              \* [is_repo, head]: head is the store as last committed
    \* one run of run_sync
    pc,               \* "idle", "loop", "commit", "done", "failed", "off"
    err,              \* the error of a failed run
    agents_doc,       \* the parsed document (segments)
    original_agents,  \* the text read from the document file: Some(text) or None
    all_names,        \* the names still to be visited, in order
    updated,          \* the flag of the same name
    statuses,         \* what compute_sync_status returned at the start
    events,           \* the effects of the run so far, in order
    \* history
    skills0,          \* the store when the run started
    agents0,          \* the document file when the run started
    prev,             \* the run before: [ok, changed], did it succeed and did it
                      \* save a skill or write the document
    \* the command line
    cmd,              \* [op, names, content]: the command and its arguments
    \* the lifecycle of the plan steps
    state,            \* StateFile: step id -> StepState, for the recorded steps
    last_call,        \* the last call of next_action or run_lifecycle, with what
                      \* it ran and the state file it wrote
    failures,         \* how many more actions may fail, for the driver
    lpc,              \* "ready", "off"
    \* one call of run_command_with_fallback
    programs,         \* what running each candidate program gives, in list order
    command,          \* the result of the call: [ok, error, tried]
    fpc               \* "call", "returned", "off"

resolve_vars == << skill_content, agents_content, input, resolution, rpc >>

doc_vars == << doc_text, doc, rendered, removal, upsert, dpc >>

sync_vars == << skills, agents_file, git, pc, err, agents_doc, original_agents,
                all_names, updated, statuses, events, skills0, agents0, prev, cmd >>

life_vars == << state, last_call, failures, lpc, programs, command, fpc >>

vars == << resolve_vars, doc_vars, sync_vars, life_vars >>

\* Option<String>
None == [some |-> FALSE, text |-> << >>]

Some(text) == [some |-> TRUE, text |-> text]

EmptyMap == [n \in {} |-> << >>]

NoFile == [exists |-> FALSE, text |-> << >>]

NoResolution == [ok |-> FALSE, text |-> << >>, rest |-> << >>, choices |-> << >>]

ResolveOff ==
    /\ skill_content = << >>
    /\ agents_content = << >>
    /\ input = << >>
    /\ resolution = NoResolution
    /\ rpc = "off"

NoUpsert == [section |-> FreeText(<< >>), segments |-> << >>]

NoRemoval == [name |-> "", found |-> FALSE, segments |-> << >>]

DocOff ==
    /\ doc_text = << >>
    /\ doc = ParseError
    /\ rendered = << >>
    /\ removal = NoRemoval
    /\ upsert = NoUpsert
    /\ dpc = "off"

Command(op, names, content) == [op |-> op, names |-> names, content |-> content]

SyncOff ==
    /\ cmd = Command("", << >>, << >>)
    /\ skills = EmptyMap
    /\ agents_file = NoFile
    /\ git = [is_repo |-> FALSE, head |-> EmptyMap]
    /\ pc = "off"
    /\ err = ""
    /\ agents_doc = << >>
    /\ original_agents = None
    /\ all_names = << >>
    /\ updated = FALSE
    /\ statuses = EmptyMap
    /\ events = << >>
    /\ skills0 = EmptyMap
    /\ agents0 = NoFile
    /\ prev = [ok |-> FALSE, changed |-> FALSE]

NoStateFile == [exists |-> FALSE, steps |-> EmptyMap]

NoCall == [op |-> "", override |-> [some |-> FALSE, lifecycle |-> 0], step |-> "",
           lifecycle |-> 0, kind |-> "", error |-> "", before |-> EmptyMap,
           gates |-> 0, ran |-> << >>, saved |-> NoStateFile]

NoCommand == [ok |-> FALSE, error |-> "", tried |-> << >>]

LifeOff ==
    /\ state = EmptyMap
    /\ last_call = NoCall
    /\ failures = 0
    /\ lpc = "off"
    /\ programs = << >>
    /\ command = NoCommand
    /\ fpc = "off"

\* ------------------------------------------------------------------------
\* Inputs of the conflict resolution: every pair of small texts, and pairs
\* of longer texts built from runs of unchanged lines around one or two
\* changes.
\* ------------------------------------------------------------------------
SeqsUpTo(S, n) == UNION {[1..k -> S] : k \in 0..n}

Alphabet == {"x", "y", "\n"}

SmallTexts == SeqsUpTo(Alphabet, MaxLen)

Line(c) == << c, "\n" >>

EqLine(k) == Line((<< "e", "f", "g" >>)[(k % 3) + 1])

EqRun(from, n) == Flatten([i \in 1..n |-> EqLine(from + i)])

ChangeKinds == {"replace", "delete", "insert"}

ChangeText(kind, side) ==
    CASE kind = "replace" -> Line(IF side = "old" THEN "o" ELSE "n")
      [] kind = "delete"  -> IF side = "old" THEN Line("o") ELSE << >>
      [] kind = "insert"  -> IF side = "new" THEN Line("n") ELSE << >>
      [] OTHER -> << >>

Patterned(pre, c1, gap, c2, post, side) ==
    EqRun(0, pre) \o ChangeText(c1, side) \o EqRun(pre, gap)
        \o ChangeText(c2, side) \o EqRun(pre + gap, post)

PatternedPairs ==
    {[old |-> Patterned(p[1], p[2], p[3], p[4], p[5], "old"),
      new |-> Patterned(p[1], p[2], p[3], p[4], p[5], "new")] :
        p \in {0, 1, MaxPre} \X ChangeKinds \X (0..MaxGap)
                \X (ChangeKinds \cup {"none"}) \X {0, 1, MaxPre}}

TextPairs == {[old |-> o, new |-> n] : o \in SmallTexts, n \in SmallTexts} \cup PatternedPairs

StdinSeqs == SeqsUpTo(StdinLines, MaxInput)

\* stdin that holds nothing but choices
ChoiceSeqs == SeqsUpTo({l \in StdinLines : answer(l) \in {"s", "a"}}, MaxInput)

\* the small texts meet every stdin, the patterned texts every stdin of
\* choices
ResolveInit ==
    /\ \E p \in TextPairs :
          /\ skill_content = p.old
          /\ agents_content = p.new
          /\ input \in (IF p \in PatternedPairs THEN ChoiceSeqs ELSE StdinSeqs)
    /\ resolution = NoResolution
    /\ rpc = "call"
    /\ DocOff
    /\ SyncOff
    /\ LifeOff

Resolve ==
    /\ rpc = "call"
    /\ resolution' = resolve_conflicts_interactive(skill_content, agents_content, input)
    /\ rpc' = "returned"
    /\ UNCHANGED << skill_content, agents_content, input >>
    /\ UNCHANGED << doc_vars, sync_vars, life_vars >>

SpecResolve == ResolveInit /\ [][Resolve]_vars

\* ------------------------------------------------------------------------
\* Conflict resolution: properties
\* ------------------------------------------------------------------------
Resolved == rpc = "returned" /\ resolution.ok

AllChoices(c) == \A i \in 1..Len(resolution.choices) : resolution.choices[i] = c

\* C2: when the texts differ and the same side is chosen for every hunk,
\* the resolved text is that side: remote for 'agents', local for 'skill'.
C2_UniformChoiceYieldsChosenSide ==
    (Resolved /\ skill_content # agents_content) =>
        /\ AllChoices("Agents") => resolution.text = agents_content
        /\ AllChoices("Skill") => resolution.text = skill_content

\* The hunk (index into groups) that holds the change op: change ops are
\* never split by the grouping.
HunkOf(groups, op) ==
    CHOOSE g \in 1..Len(groups) :
        \E j \in 1..Len(groups[g]) :
            /\ groups[g][j].tag = op.tag
            /\ groups[g][j].old_index = op.old_index
            /\ groups[g][j].new_index = op.new_index

Lines(ls, index, len) == Flatten([i \in 1..len |-> ls[index + i]])

\* What the resolution must hold when every unchanged span between two
\* changes is kept whole: per op of the diff, in order, the chosen side of
\* a change, every line of an unchanged span that lies between changes,
\* and of the unchanged span before the first or after the last change the
\* context lines of the hunk.
SpansRetained(old_lines, new_lines, ops, groups, choices) ==
    Flatten([k \in 1..Len(ops) |->
        LET op == ops[k]
        IN  IF op.tag = "Equal"
            THEN IF k = 1
                 THEN LET n == Min(op.old_len, ContextRadius)
                      IN  Lines(old_lines, op.old_index + op.old_len - n, n)
                 ELSE IF k = Len(ops)
                      THEN Lines(old_lines, op.old_index, Min(op.old_len, ContextRadius))
                      ELSE Lines(old_lines, op.old_index, op.old_len)
            ELSE IF choices[HunkOf(groups, op)] = "Skill"
                 THEN Lines(old_lines, op.old_index, op.old_len)
                 ELSE Lines(new_lines, op.new_index, op.new_len)])

HasChange(ops) == \E k \in 1..Len(ops) : ops[k].tag # "Equal"

HasInnerSpan(ops) == \E k \in 2..(Len(ops) - 1) : ops[k].tag = "Equal"

\* C3: every unchanged span of lines between two hunks is in the resolved
\* text, whole and in its place, whatever the choices.
C3_EqualSpansRetained ==
    LET old_lines == tokenize_lines(skill_content)
        new_lines == tokenize_lines(agents_content)
        ops == diff_ops(old_lines, new_lines)
    IN  (Resolved /\ HasChange(ops)) =>
            resolution.text = SpansRetained(old_lines, new_lines, ops,
                                            group_diff_ops(ops, ContextRadius),
                                            resolution.choices)

\* ------------------------------------------------------------------------
\* Documents given to parse: every sequence of at most MaxDocLines lines,
\* each a marker, a heading, a line of text or a blank line; the last line
\* with or without its newline.
\* ------------------------------------------------------------------------
DocLineBodies ==
    {<< StartMarker("a") >>, << EndMarker("a") >>, << StartMarker("b") >>,
     << EndMarker("b") >>, << Heading("a") >>, << "x" >>, << >>}

DocTextOf(bodies, final_newline) ==
    Flatten([i \in 1..Len(bodies) |->
                bodies[i] \o (IF i < Len(bodies) \/ final_newline THEN << "\n" >>
                              ELSE << >>)])

DocTexts ==
    {DocTextOf(b, nl) : b \in SeqsUpTo(DocLineBodies, MaxDocLines), nl \in BOOLEAN}

DocInit ==
    /\ doc_text \in DocTexts
    /\ doc = ParseError
    /\ rendered = << >>
    /\ removal = NoRemoval
    /\ upsert = NoUpsert
    /\ dpc = "parse"
    /\ ResolveOff
    /\ SyncOff
    /\ LifeOff

DocParse ==
    /\ dpc = "parse"
    /\ doc' = parse(doc_text)
    /\ dpc' = IF doc'.ok THEN "render" ELSE "rejected"
    /\ UNCHANGED << doc_text, rendered, removal, upsert >>
    /\ UNCHANGED << resolve_vars, sync_vars, life_vars >>

DocRender ==
    /\ dpc = "render"
    /\ rendered' = render(doc.segments)
    /\ dpc' = "done"
    /\ UNCHANGED << doc_text, doc, removal, upsert >>
    /\ UNCHANGED << resolve_vars, sync_vars, life_vars >>

\* remove_section(name) on the parsed document, then render()
DocRemove ==
    /\ dpc = "render"
    /\ \E name \in ValidNames :
          LET r == remove_section(doc.segments, name)
          IN  /\ removal' = [name |-> name, found |-> r.found, segments |-> r.segments]
              /\ rendered' = render(r.segments)
    /\ dpc' = "removed"
    /\ UNCHANGED << doc_text, doc, upsert >>
    /\ UNCHANGED << resolve_vars, sync_vars, life_vars >>

UpsertContents == {<< >>, << "y" >>, Line("y")}

\* upsert_section(from_content(name, content)) on the parsed document, then
\* render()
DocUpsert ==
    /\ dpc = "render"
    /\ \E name \in ValidNames, content \in UpsertContents :
          LET section == from_content(name, content)
              segments == upsert_section(doc.segments, section)
          IN  /\ upsert' = [section |-> section, segments |-> segments]
              /\ rendered' = render(segments)
    /\ dpc' = "upserted"
    /\ UNCHANGED << doc_text, doc, removal >>
    /\ UNCHANGED << resolve_vars, sync_vars, life_vars >>

SpecDoc == DocInit /\ [][DocParse \/ DocRender \/ DocRemove \/ DocUpsert]_vars

\* C1: round trip: a document whose markers are well formed (parse accepts
\* it) renders, with no section changed, to the very text that was parsed.
C1_RoundTrip == dpc = "done" => rendered = doc_text

\* a document with free text, two sections and no final newline went
\* through parse and render
C1_Witness ==
    /\ dpc = "done"
    /\ Len(section_names(doc.segments)) = 2
    /\ \E i \in 1..Len(doc.segments) :
          doc.segments[i].kind = "FreeText" /\ doc.segments[i].text # << >>
    /\ doc_text[Len(doc_text)] # "\n"

\* the lines of a text that are the Start marker of a name
StartLines(text, name) ==
    {i \in 1..Len(doc_lines(text)) : line_body(doc_lines(text)[i]) = << StartMarker(name) >>}

\* a text without its first block of a name: the lines from the first Start
\* marker of the name to the first End marker of the name after it
WithoutBlock(text, name) ==
    LET lines == doc_lines(text)
        i == CHOOSE k \in StartLines(text, name) : \A m \in StartLines(text, name) : k <= m
        ends == {k \in (i + 1)..Len(lines) : line_body(lines[k]) = << EndMarker(name) >>}
        j == CHOOSE k \in ends : \A m \in ends : k <= m
    IN  Flatten(SubSeq(lines, 1, i - 1)) \o Flatten(SubSeq(lines, j + 1, Len(lines)))

\* C14: removal locality: remove_section(N) then render() gives the text
\* without the lines from the Start N marker to the End N marker, every
\* other byte as it was, and remove_section returns true; with no section
\* N it returns false and the document is as it was.
C14_RemovalLocality ==
    dpc = "removed" =>
        IF StartLines(doc_text, removal.name) # {}
        THEN removal.found /\ rendered = WithoutBlock(doc_text, removal.name)
        ELSE ~removal.found /\ removal.segments = doc.segments /\ rendered = doc_text

\* a section was removed from a document with free text before it and a
\* second section of the same name after it
C14_Witness ==
    /\ dpc = "removed"
    /\ removal.found
    /\ doc_text[1] = "x"
    /\ section_names(doc.segments) = << removal.name, removal.name >>
    /\ section_names(removal.segments) = << removal.name >>

\* the marker lines of a text, in order: [start, name]
MarkerLines(text) ==
    LET bodies == [i \in 1..Len(doc_lines(text)) |-> line_body(doc_lines(text)[i])]
        markers == SelectSeq(bodies, LAMBDA b : Len(b) = 1 /\ (IsStart(b[1]) \/ IsEnd(b[1])))
    IN  [i \in 1..Len(markers) |->
            IF IsStart(markers[i][1])
            THEN [start |-> TRUE, name |-> StartName(markers[i][1])]
            ELSE [start |-> FALSE, name |-> EndName(markers[i][1])]]

\* the first n marker lines are Start and End markers in pairs, each pair of
\* one name: after them the scan is outside any section
PairedUpTo(ms, n) ==
    /\ n % 2 = 0
    /\ \A i \in 1..n :
          IF i % 2 = 1 THEN ms[i].start
          ELSE ~ms[i].start /\ ms[i].name = ms[i - 1].name

\* an End marker names another section than the open Start marker
EndMismatch(ms) ==
    \E i \in 1..(Len(ms) - 1) :
        /\ PairedUpTo(ms, i - 1)
        /\ ms[i].start /\ ~ms[i + 1].start /\ ms[i + 1].name # ms[i].name

\* an End marker outside any section
EndOutside(ms) == \E i \in 1..Len(ms) : PairedUpTo(ms, i - 1) /\ ~ms[i].start

\* the input ends while a section is open
OpenAtEnd(ms) == ms # << >> /\ PairedUpTo(ms, Len(ms) - 1) /\ ms[Len(ms)].start

\* C12: malformed rejection: parse fails, and returns no document, not a
\* part of one, when an End marker names another section than the open
\* Start marker, when an End marker stands outside any section, and when
\* the input ends while a section is open.
C12_MalformedRejection ==
    LET ms == MarkerLines(doc_text)
    IN  (dpc # "parse" /\ (EndMismatch(ms) \/ EndOutside(ms) \/ OpenAtEnd(ms))) =>
            /\ dpc = "rejected"
            /\ ~doc.ok
            /\ doc.segments = << >>
            /\ rendered = << >>

\* parse rejected a document that holds a whole section a and free text
\* before a Start marker of b that an End marker of a closes
C12_Witness ==
    LET ms == MarkerLines(doc_text)
    IN  /\ dpc = "rejected"
        /\ Len(ms) = 4
        /\ EndMismatch(ms)
        /\ ms[3].name = "b"
        /\ doc_text[1] = "x"

\* ------------------------------------------------------------------------
\* compute_sync_status(skills_store, agents_doc): name -> SyncStatus.
\* has_doc is agents_doc.is_some().
\* ------------------------------------------------------------------------
NameSet(names) == {names[i] : i \in 1..Len(names)}

\* status_of with Local and Remote taken for each other
status_of_swapped(name, skills_map, agents_map) ==
    IF name \in DOMAIN skills_map /\ name \in DOMAIN agents_map
    THEN IF skills_map[name] = agents_map[name] THEN "InSync" ELSE "Conflict"
    ELSE IF name \in DOMAIN skills_map THEN "Remote" ELSE "Local"

status_of(name, skills_map, agents_map) ==
    IF name \in DOMAIN skills_map /\ name \in DOMAIN agents_map
    THEN IF skills_map[name] = agents_map[name] THEN "InSync" ELSE "Conflict"
    ELSE IF name \in DOMAIN skills_map THEN "Local" ELSE "Remote"

compute_sync_status(store, has_doc, segments) ==
    IF ~has_doc \/ section_names(segments) = << >>
    THEN EmptyMap
    ELSE LET skills_map == [n \in DOMAIN store |-> normalize_content(store[n])]
             agents_map == [n \in NameSet(section_names(segments)) |->
                               normalize_content(content_string(get_section(segments, n)))]
         IN  [n \in DOMAIN skills_map \cup DOMAIN agents_map |->
                 status_of(n, skills_map, agents_map)]

\* lines 168-175: the calls compute_sync_status makes on the store: the
\* listing, then a load of every name listed
status_reads(store, has_doc, segments) ==
    IF ~has_doc \/ section_names(segments) = << >>
    THEN << >>
    ELSE LET listed == SelectSeq(NameOrder, LAMBDA n : n \in DOMAIN store)
         IN  << [op |-> "list_skill_names", name |-> "", text |-> << >>] >>
                 \o [i \in 1..Len(listed) |->
                        [op |-> "load_skill (listed)", name |-> listed[i], text |-> << >>]]

\* print_sync_status: the names printed with their mark
reported(st) == [n \in {m \in DOMAIN st : st[m] # "InSync"} |-> st[n]]

\* ------------------------------------------------------------------------
\* run_sync, one step per action.  The steps work on the record of the
\* values a step may change.
\* ------------------------------------------------------------------------
Event(op, name, text) == [op |-> op, name |-> name, text |-> text]

\* a call on the store, the document or the repository, noted in the run
log(st, op, name) == [st EXCEPT !.events = Append(st.events, Event(op, name, << >>))]

\* a save that leaves the content of a name the store already holds
save_skill_no_overwrite(st, name, content) ==
    [st EXCEPT !.skills = st.skills @@ (name :> content),
               !.events = Append(st.events, Event("save_skill", name, content))]

save_skill(st, name, content) ==
    [st EXCEPT !.skills = (name :> content) @@ st.skills,
               !.events = Append(st.events, Event("save_skill", name, content))]

\* an error that is recorded but does not end the run
Fail_continues(st, error) == [st EXCEPT !.err = error]

Fail(st, error) == [st EXCEPT !.pc = "failed", !.err = error]

\* all_names as a list that keeps the order and the repetitions of
\* section_names()
sorted_names_as_listed(names) == names

\* all_names: the section names of the document as a BTreeSet
sorted_names(names) == SelectSeq(NameOrder, LAMBDA n : n \in NameSet(names))

\* adoption that saves the lines between the markers, the heading included
adopt_raw(st, name, section) == save_skill(st, name, section.text)

\* adoption that also rewrites the section of the document
adopt_upserts(st, name, section) ==
    [save_skill(st, name, content_string(section)) EXCEPT
        !.agents_doc = upsert_section(st.agents_doc,
                                      from_content(name, content_string(section))),
        !.updated = TRUE]

\* (false, Some(section)): the document's content becomes a new skill
adopt(st, name, section) == save_skill(st, name, content_string(section))

\* a resolution that did not return: stdin closed at a prompt, after the
\* choices noted
closed(st, name, choices) ==
    [st EXCEPT !.events = Append(st.events,
                                 Event("resolve (input closed)", name, choices))]

\* the case of a name in both that saves the resolution to the store and
\* leaves the section of the document
reconcile_keeps_section(st, name, section, lines) ==
    LET skill == st.skills[name]
        agents == content_string(section)
        loaded == log(st, "load_skill", name)
    IN  IF normalize_content(skill) # normalize_content(agents)
        THEN LET r == resolve_conflicts_interactive(skill, agents, lines)
             IN  IF ~r.ok
                 THEN Fail(closed(loaded, name, r.choices), "stdin closed")
                 ELSE [save_skill(
                          [loaded EXCEPT !.events = Append(loaded.events,
                                             Event("resolve", name, r.choices))],
                          name, r.text) EXCEPT !.updated = TRUE]
        ELSE loaded

\* the case of a name in both that compares the contents as they are
reconcile_raw(st, name, section, lines) ==
    LET skill == st.skills[name]
        agents == content_string(section)
        loaded == log(st, "load_skill", name)
    IN  IF skill # agents
        THEN LET r == resolve_conflicts_interactive(skill, agents, lines)
             IN  IF ~r.ok
                 THEN Fail(closed(loaded, name, r.choices), "stdin closed")
                 ELSE LET saved == save_skill(
                              [loaded EXCEPT !.events = Append(loaded.events,
                                                 Event("resolve", name, r.choices))],
                              name, r.text)
                      IN  [saved EXCEPT
                              !.agents_doc = upsert_section(st.agents_doc,
                                                 from_content(name, r.text)),
                              !.updated = TRUE]
        ELSE loaded

\* the case of a name in both that saves what the choices made so far give
\* when stdin closes
reconcile_saves_partial(st, name, section, lines) ==
    LET skill == st.skills[name]
        agents == content_string(section)
        loaded == log(st, "load_skill", name)
    IN  IF normalize_content(skill) # normalize_content(agents)
        THEN LET r == resolve_conflicts_interactive(skill, agents, lines)
                 saved == save_skill(
                              [loaded EXCEPT !.events = Append(loaded.events,
                                                 Event("resolve", name, r.choices))],
                              name, r.text)
             IN  IF ~r.ok
                 THEN Fail(save_skill(closed(loaded, name, r.choices), name, r.text),
                           "stdin closed")
                 ELSE [saved EXCEPT
                          !.agents_doc = upsert_section(st.agents_doc,
                                             from_content(name, r.text)),
                          !.updated = TRUE]
        ELSE loaded

\* (true, Some(section)): resolve when the normalized contents differ;
\* lines holds what stdin delivers to the prompts of this resolution
reconcile(st, name, section, lines) ==
    LET skill == st.skills[name]
        agents == content_string(section)
        loaded == log(st, "load_skill", name)
    IN  IF normalize_content(skill) # normalize_content(agents)
        THEN LET r == resolve_conflicts_interactive(skill, agents, lines)
             IN  IF ~r.ok
                 THEN Fail(closed(loaded, name, r.choices), "stdin closed")
                 ELSE LET saved == save_skill(
                              [loaded EXCEPT !.events = Append(loaded.events,
                                                 Event("resolve", name, r.choices))],
                              name, r.text)
                      IN  [saved EXCEPT
                              !.agents_doc = upsert_section(st.agents_doc,
                                                 from_content(name, r.text)),
                              !.updated = TRUE]
        ELSE loaded

\* the loop body without the test of skill_exists: the document always wins
sync_name_overwrites(st, name, lines) ==
    IF ~validate_name(name) THEN Fail(st, "invalid name")
    ELSE IF has_section(st.agents_doc, name)
         THEN adopt(st, name, get_section(st.agents_doc, name))
         ELSE st

\* the body of the loop over all_names
sync_name(st, name, lines) ==
    LET validated == log(st, "validate_name", name)
    IN  IF ~validate_name(name) THEN Fail(validated, "invalid name")
        ELSE LET skill_exists == name \in DOMAIN st.skills
                 asked == log(validated, "skill_exists", name)
             IN  IF has_section(st.agents_doc, name)
                 THEN IF skill_exists
                      THEN reconcile(asked, name, get_section(st.agents_doc, name), lines)
                      ELSE adopt(asked, name, get_section(st.agents_doc, name))
                 ELSE asked

\* lines 25-35: the one path of the loop body that reaches prompt_choice, the
\* only reader of stdin; on every other path no line of stdin is consumed
reads_stdin(st, name) ==
    /\ validate_name(name)
    /\ has_section(st.agents_doc, name)
    /\ name \in DOMAIN st.skills
    /\ normalize_content(st.skills[name])
           # normalize_content(content_string(get_section(st.agents_doc, name)))

\* the test of line 48 with the comparison turned round
should_write_when_same(upd, original, text) == upd \/ original = Some(text)

\* a write of the document file on every run
should_write_always(upd, original, text) == TRUE

\* line 48: the condition of the write of the document file
should_write(upd, original, text) == upd \/ original # Some(text)

\* line 263: the message of the commit
CommitMessage == "Update skills"

\* commit_skills_repo; fail names the git call that exits non-zero
GitCalls == {"none", "add", "status", "commit"}

\* a working tree that is never found clean
git_is_clean_never(st) == FALSE

\* lines 283-295; the working tree is clean when the store is as committed
git_is_clean(st) == st.git.head = st.skills

\* the status of a call that exits non-zero, noted with the call
NonZero == << "exit 1" >>

exit_nonzero(st) == [st EXCEPT !.events[Len(st.events)].text = NonZero]

\* a commit step that goes on after a git add that failed
commit_skills_repo_ignores_add(st, fail) ==
    LET called == log(log(st, "commit_skills_repo", ""), "git rev-parse", "")
        added == IF fail = "add" THEN exit_nonzero(log(called, "git add", ""))
                 ELSE log(called, "git add", "")
        asked == log(added, "git status", "")
    IN  IF ~st.git.is_repo THEN [called EXCEPT !.pc = "done"]
        ELSE IF fail = "status" THEN Fail(exit_nonzero(asked), "git status failed")
        ELSE IF git_is_clean(st) THEN [asked EXCEPT !.pc = "done"]
        ELSE IF fail = "commit"
             THEN Fail(exit_nonzero(log(asked, "git commit", CommitMessage)),
                       "git commit failed")
        ELSE [log(asked, "git commit", CommitMessage) EXCEPT
                 !.pc = "done",
                 !.git = [is_repo |-> TRUE, head |-> st.skills]]

commit_skills_repo(st, fail) ==
    LET called == log(log(st, "commit_skills_repo", ""), "git rev-parse", "")
        added == log(called, "git add", "")
        asked == log(added, "git status", "")
    IN  IF ~st.git.is_repo THEN [called EXCEPT !.pc = "done"]
        ELSE IF fail = "add" THEN Fail(exit_nonzero(added), "git add failed")
        ELSE IF fail = "status" THEN Fail(exit_nonzero(asked), "git status failed")
        ELSE IF git_is_clean(st) THEN [asked EXCEPT !.pc = "done"]
        ELSE IF fail = "commit"
             THEN Fail(exit_nonzero(log(asked, "git commit", CommitMessage)),
                       "git commit failed")
        ELSE [log(asked, "git commit", CommitMessage) EXCEPT
                 !.pc = "done",
                 !.git = [is_repo |-> TRUE, head |-> st.skills]]

Cur ==
    [skills |-> skills, agents_file |-> agents_file, git |-> git, pc |-> pc,
     err |-> err, agents_doc |-> agents_doc, updated |-> updated, events |-> events]

Becomes(st) ==
    /\ skills' = st.skills
    /\ agents_file' = st.agents_file
    /\ git' = st.git
    /\ pc' = st.pc
    /\ err' = st.err
    /\ agents_doc' = st.agents_doc
    /\ updated' = st.updated
    /\ events' = st.events

\* a test of line 12 that never finds the file missing
agents_missing_never(file) == FALSE

\* line 12: !agents_path.exists()
agents_missing(file) == ~file.exists

\* reading that takes a document parse rejects for an empty document
read_agents_doc_lenient(file) ==
    IF file.exists
    THEN [ok |-> TRUE, doc |-> parse(file.text).segments, original |-> Some(file.text)]
    ELSE [ok |-> TRUE, doc |-> << >>, original |-> None]

\* lines 63-72: the document parsed and the text read; the error of parse
\* is the error of the call
read_agents_doc(file) ==
    IF file.exists
    THEN LET parsed == parse(file.text)
         IN  [ok |-> parsed.ok, doc |-> parsed.segments, original |-> Some(file.text)]
    ELSE [ok |-> TRUE, doc |-> << >>, original |-> None]

\* lines 11-23: a new run
run_sync_start ==
    /\ \/ pc = "idle" /\ cmd.op \in {"sync", "sync-remote"}
       \/ pc \in {"done", "failed"} /\ cmd.op = "sync"
    /\ prev' = [ok |-> pc = "done",
                changed |-> \E i \in 1..Len(events) :
                                events[i].op \in {"save_skill", "write"}]
    /\ skills0' = skills
    /\ agents0' = agents_file
    /\ updated' = FALSE
    /\ IF agents_missing(agents_file)
       THEN /\ pc' = "commit"
            /\ err' = ""
            /\ events' = << >>
            /\ agents_doc' = << >>
            /\ original_agents' = None
            /\ statuses' = EmptyMap
            /\ all_names' = << >>
       ELSE LET read == read_agents_doc(agents_file)
            IN  /\ pc' = IF read.ok THEN "loop" ELSE "failed"
                /\ err' = IF read.ok THEN "" ELSE "malformed document"
                /\ events' = IF read.ok THEN status_reads(skills, TRUE, read.doc) ELSE << >>
                /\ agents_doc' = read.doc
                /\ original_agents' = read.original
                /\ statuses' = IF read.ok
                               THEN compute_sync_status(skills, TRUE, read.doc)
                               ELSE EmptyMap
                /\ all_names' = IF read.ok
                                THEN sorted_names(section_names(read.doc))
                                ELSE << >>
    /\ UNCHANGED << skills, agents_file, git, cmd >>
    /\ UNCHANGED << resolve_vars, doc_vars, life_vars >>

\* lines 24-45: one turn of the loop; what stdin delivers to the prompts of
\* the turn is an input
run_sync_name ==
    /\ pc = "loop"
    /\ all_names # << >>
    /\ \E lines \in (IF reads_stdin(Cur, Head(all_names)) THEN StdinSeqs ELSE {<< >>}) :
           Becomes(sync_name(Cur, Head(all_names), lines))
    /\ all_names' = Tail(all_names)
    /\ UNCHANGED << original_agents, statuses, skills0, agents0, prev, cmd >>
    /\ UNCHANGED << resolve_vars, doc_vars, life_vars >>

\* lines 47-51: render, and write the file when it changed
run_sync_write ==
    /\ pc = "loop"
    /\ all_names = << >>
    /\ LET text == render(agents_doc)
       IN  IF should_write(updated, original_agents, text)
           THEN /\ agents_file' = [exists |-> TRUE, text |-> text]
                /\ events' = Append(events, Event("write", "", text))
           ELSE UNCHANGED << agents_file, events >>
    /\ pc' = "commit"
    /\ UNCHANGED << skills, git, err, agents_doc, original_agents, all_names,
                    updated, statuses, skills0, agents0, prev, cmd >>
    /\ UNCHANGED << resolve_vars, doc_vars, life_vars >>

\* lines 13 and 53: the commit step
run_sync_commit ==
    /\ pc = "commit"
    /\ \E fail \in GitCalls : Becomes(commit_skills_repo(Cur, fail))
    /\ UNCHANGED << original_agents, all_names, statuses, skills0, agents0, prev, cmd >>
    /\ UNCHANGED << resolve_vars, doc_vars, life_vars >>

SyncNext == run_sync_start \/ run_sync_name \/ run_sync_write \/ run_sync_commit

\* ------------------------------------------------------------------------
\* run_sync_remote and the commands of main on the store and the document
\* ------------------------------------------------------------------------
\* what git pull --rebase does: fails, finds nothing new, or brings a skill
PullOutcomes == {"fail", "up to date", "changed"}

Pulled(store) == ("b" :> Line("z")) @@ store

\* a pull that does not ask whether the store is a repository
git_pull_rebase_unchecked(st, outcome) ==
    LET pulling == log(log(st, "git_pull_rebase", ""), "git pull --rebase", "")
    IN  IF outcome = "fail" THEN Fail(exit_nonzero(pulling), "git pull --rebase failed")
        ELSE [pulling EXCEPT !.pc = "pulled"]

\* lines 224-239
git_pull_rebase(st, outcome) ==
    LET called == log(log(st, "git_pull_rebase", ""), "git rev-parse", "")
        pulling == log(called, "git pull --rebase", "")
    IN  IF ~st.git.is_repo THEN [called EXCEPT !.pc = "pulled"]
        ELSE IF outcome = "fail" THEN Fail(exit_nonzero(pulling), "git pull --rebase failed")
        ELSE IF outcome = "changed"
             THEN [pulling EXCEPT !.pc = "pulled",
                                  !.skills = Pulled(st.skills),
                                  !.git = [is_repo |-> TRUE, head |-> Pulled(st.skills)]]
        ELSE [pulling EXCEPT !.pc = "pulled"]

\* delete_skill: the entry leaves the store; no error when there is none
delete_skill(st, name) ==
    [log(st, "delete_skill", name) EXCEPT
        !.skills = [n \in DOMAIN st.skills \ {name} |-> st.skills[n]]]

\* the sections of get, a blank line between two of them
RECURSIVE render_sections(_)
render_sections(sections) ==
    IF sections = << >> THEN << >>
    ELSE render_segment(Head(sections))
             \o (IF Len(sections) > 1 THEN << "\n" >> ELSE << >>)
             \o render_sections(Tail(sections))

write_agents(st, text) ==
    [st EXCEPT !.agents_file = [exists |-> TRUE, text |-> text],
               !.events = Append(st.events, Event("write", "", text))]

\* main.rs lines 41-51
RECURSIVE get_loop(_, _, _)
get_loop(st, names, sections) ==
    IF names = << >>
    THEN [write_agents(st, render_sections(sections)) EXCEPT !.pc = "done"]
    ELSE LET name == Head(names)
             validated == log(st, "validate_name", name)
             loaded == log(validated, "load_skill", name)
         IN  IF ~validate_name(name) THEN Fail(validated, "invalid name")
             ELSE IF name \notin DOMAIN st.skills THEN Fail(loaded, "skill not found")
             ELSE get_loop(loaded, Tail(names),
                           Append(sections, from_content(name, st.skills[name])))

cmd_get(st, names) == get_loop(st, names, << >>)

\* set that saves before it validates
cmd_set_unvalidated(st, name, content) ==
    LET saved == save_skill(st, name, content.text)
        validated == log(saved, "validate_name", name)
    IN  IF ~content.some THEN Fail(st, "failed to read")
        ELSE IF ~validate_name(name) THEN Fail(validated, "invalid name")
        ELSE [validated EXCEPT !.pc = "done"]

\* main.rs lines 52-56; content is what the file of the command line holds,
\* None when it cannot be read
cmd_set(st, name, content) ==
    LET validated == log(st, "validate_name", name)
    IN  IF ~validate_name(name) THEN Fail(validated, "invalid name")
        ELSE IF ~content.some THEN Fail(validated, "failed to read")
        ELSE [save_skill(validated, name, content.text) EXCEPT !.pc = "done"]

\* main.rs lines 66-72 and 76-82: the section leaves the document file
remove_from_agents(st, name) ==
    IF ~st.agents_file.exists THEN Fail(st, "failed to read")
    ELSE LET parsed == parse(st.agents_file.text)
             removed == remove_section(parsed.segments, name)
         IN  IF ~parsed.ok THEN Fail(st, "malformed document")
             ELSE IF removed.found THEN write_agents(st, render(removed.segments))
             ELSE st

\* main.rs lines 74-84
cmd_delete_globally(st, name) ==
    LET validated == log(st, "validate_name", name)
        removed == remove_from_agents(validated, name)
    IN  IF ~validate_name(name) THEN Fail(validated, "invalid name")
        ELSE IF removed.pc = "failed" THEN removed
        ELSE [delete_skill(removed, name) EXCEPT !.pc = "done"]

\* delete that does what delete-globally does
cmd_delete_with_skill(st, name) == cmd_delete_globally(st, name)

\* main.rs lines 64-73
cmd_delete(st, name) ==
    LET validated == log(st, "validate_name", name)
        removed == remove_from_agents(validated, name)
    IN  IF ~validate_name(name) THEN Fail(validated, "invalid name")
        ELSE IF removed.pc = "failed" THEN removed
        ELSE [removed EXCEPT !.pc = "done"]

\* a listing that marks no name
local_mark_none(st, name) == ""

\* main.rs lines 142-155: the mark printed after a name; "" is no mark
local_mark(st, name) ==
    IF name \notin DOMAIN st THEN ""
    ELSE CASE st[name] = "Local" -> "local"
           [] st[name] = "Conflict" -> "conflict"
           [] st[name] = "Remote" -> "remote"
           [] OTHER -> ""

\* main.rs lines 125-158
cmd_local(st) ==
    IF ~st.agents_file.exists THEN [st EXCEPT !.pc = "done"]
    ELSE LET parsed == parse(st.agents_file.text)
             names == section_names(parsed.segments)
             found == compute_sync_status(st.skills, TRUE, parsed.segments)
             printed == [i \in 1..Len(names) |->
                            Event("println", names[i], << local_mark(found, names[i]) >>)]
         IN  IF ~parsed.ok THEN Fail(st, "malformed document")
             ELSE IF names = << >> THEN [st EXCEPT !.pc = "done"]
             ELSE [st EXCEPT !.pc = "done",
                             !.events = st.events
                                 \o status_reads(st.skills, TRUE, parsed.segments)
                                 \o printed]

CmdFrame ==
    /\ UNCHANGED << original_agents, all_names, statuses, skills0, agents0, prev, cmd >>
    /\ UNCHANGED << resolve_vars, doc_vars, life_vars >>

get == pc = "idle" /\ cmd.op = "get" /\ Becomes(cmd_get(Cur, cmd.names)) /\ CmdFrame

set ==
    /\ pc = "idle" /\ cmd.op = "set"
    /\ Becomes(cmd_set(Cur, cmd.names[1], cmd.content))
    /\ CmdFrame

delete ==
    /\ pc = "idle" /\ cmd.op = "delete"
    /\ Becomes(cmd_delete(Cur, cmd.names[1]))
    /\ CmdFrame

delete_globally ==
    /\ pc = "idle" /\ cmd.op = "delete-globally"
    /\ Becomes(cmd_delete_globally(Cur, cmd.names[1]))
    /\ CmdFrame

local == pc = "idle" /\ cmd.op = "local" /\ Becomes(cmd_local(Cur)) /\ CmdFrame

\* sync.rs lines 58-59: the pull after a run_sync that returned Ok
run_sync_remote_pull ==
    /\ pc = "done" /\ cmd.op = "sync-remote"
    /\ \E outcome \in PullOutcomes : Becomes(git_pull_rebase(Cur, outcome))
    /\ CmdFrame

CmdNext ==
    get \/ set \/ delete \/ delete_globally \/ local \/ run_sync_remote_pull \/ SyncNext

\* ------------------------------------------------------------------------
\* The Skill Store on its own: any sequence of its operations on a store
\* that starts empty.  load and exists note their result in the run.
\* ------------------------------------------------------------------------
load_skill(store, name) == IF name \in DOMAIN store THEN Some(store[name]) ELSE None

skill_exists(store, name) == name \in DOMAIN store

StoreContents == {Line("x"), Line("y")}

StoreOpen == pc = "off" /\ Len(events) < MaxStoreOps

StoreSave ==
    /\ StoreOpen
    /\ \E name \in ValidNames, content \in StoreContents :
          Becomes(save_skill(Cur, name, content))
    /\ CmdFrame

StoreDelete ==
    /\ StoreOpen
    /\ \E name \in ValidNames : Becomes(delete_skill(Cur, name))
    /\ CmdFrame

StoreLoad ==
    /\ StoreOpen
    /\ \E name \in ValidNames :
          Becomes([Cur EXCEPT !.events =
                      Append(@, Event("load_skill", name, load_skill(skills, name)))])
    /\ CmdFrame

StoreExists ==
    /\ StoreOpen
    /\ \E name \in ValidNames :
          Becomes([Cur EXCEPT !.events =
                      Append(@, Event("skill_exists", name, skill_exists(skills, name)))])
    /\ CmdFrame

StoreInit == ResolveOff /\ DocOff /\ SyncOff /\ LifeOff

StoreNext == StoreSave \/ StoreDelete \/ StoreLoad \/ StoreExists

SpecStore == StoreInit /\ [][StoreNext]_vars

\* ------------------------------------------------------------------------
\* The stores and documents a run of run_sync starts from
\* ------------------------------------------------------------------------
LongText(c) == EqRun(0, MaxPre) \o Line(c)

Absent == [has |-> FALSE, text |-> << >>]

Present(text) == [has |-> TRUE, text |-> text]

SkillOptions(name) ==
    IF name = "a"
    THEN {Absent, Present(Line("x")), Present(<< "x", "\r", "\n" >>), Present(LongText("x"))}
    ELSE {Absent, Present(Line("x"))}

Stores ==
    {[n \in {m \in ValidNames : c[m].has} |-> c[n].text] :
        c \in {f \in [ValidNames -> UNION {SkillOptions(n) : n \in ValidNames}] :
                  \A n \in ValidNames : f[n] \in SkillOptions(n)}}

SectionKinds ==
    {[name |-> "a", body |-> b] : b \in {Line("x"), Line("y"), LongText("y")}}
    \cup {[name |-> "b", body |-> Line("y")]}
    \cup {[name |-> "a/x", body |-> Line("x")]}

SectionText(k, end) ==
    << StartMarker(k.name), "\n", Heading(k.name), "\n" >> \o k.body
        \o << EndMarker(k.name) >> \o end

\* notes: free text before, between and after the sections; bare: nothing
\* but the sections, the file ends with the last End marker, no newline
Layouts == {"notes", "bare"}

SyncDocText(ks, layout) ==
    CASE layout = "notes" ->
            Line("p") \o Flatten([i \in 1..Len(ks) |->
                                     SectionText(ks[i], << "\n" >>) \o << "\n" >>])
                      \o Line("q")
      [] layout = "bare" ->
            Flatten([i \in 1..Len(ks) |->
                        SectionText(ks[i], IF i < Len(ks) THEN << "\n" >> ELSE << >>)])

\* the documents: up to MaxSections sections, no section twice the same
\* (two sections of one name differ in their content)
SyncDocs ==
    {SyncDocText(ks, l) :
        ks \in {q \in SeqsUpTo(SectionKinds, MaxSections) :
                   \A i, j \in 1..Len(q) : q[i] = q[j] => i = j},
        l \in Layouts}

\* documents parse rejects: the one of the test sync_fails_on_broken_markers
\* (Start a closed by End b), and a whole section b followed by a section a
\* left open, or by an End marker of a outside any section
BrokenDocs ==
    {<< StartMarker("a"), "\n", Heading("a"), "\n", "x", "\n", EndMarker("b"), "\n" >>,
     SectionText([name |-> "b", body |-> Line("y")], << "\n" >>)
         \o << StartMarker("a"), "\n", Heading("a"), "\n", "x", "\n" >>,
     SectionText([name |-> "b", body |-> Line("y")], << "\n" >>)
         \o << EndMarker("a"), "\n" >>}

SyncInit ==
    /\ skills \in Stores
    /\ agents_file \in {NoFile} \cup {[exists |-> TRUE, text |-> t] : t \in SyncDocs \cup BrokenDocs}
    /\ git \in {[is_repo |-> FALSE, head |-> EmptyMap], [is_repo |-> TRUE, head |-> skills]}
    /\ pc = "idle"
    /\ err = ""
    /\ agents_doc = << >>
    /\ original_agents = None
    /\ all_names = << >>
    /\ updated = FALSE
    /\ statuses = EmptyMap
    /\ events = << >>
    /\ skills0 = skills
    /\ agents0 = agents_file
    /\ prev = [ok |-> FALSE, changed |-> FALSE]
    /\ cmd = Command("sync", << >>, << >>)
    /\ ResolveOff
    /\ DocOff
    /\ LifeOff

SpecSync == SyncInit /\ [][SyncNext]_vars

\* ------------------------------------------------------------------------
\* The command lines, and the stores and documents a command starts from
\* ------------------------------------------------------------------------
NonEmptySeqsUpTo(S, n) == SeqsUpTo(S, n) \ {<< >>}

Commands ==
    {Command("get", names, None) : names \in NonEmptySeqsUpTo(AllNames, MaxGetNames)}
    \cup {Command("set", << n >>, c) : n \in AllNames,
                                       c \in {None, Some(Line("x")), Some(Line("y"))}}
    \cup {Command(op, << n >>, None) : op \in {"delete", "delete-globally"}, n \in AllNames}
    \cup {Command(op, << >>, None) : op \in {"sync", "sync-remote", "local"}}

SectionOf(name, c) == [name |-> name, body |-> Line(c)]

\* a text of two changes too far apart for one hunk
TwoHunks(side) == Patterned(0, "replace", 2 * ContextRadius + 1, "replace", 0, side)

CmdStores == Stores \cup {"a" :> TwoHunks("old")}

CmdSections ==
    {<< >>,
     << [name |-> "a", body |-> TwoHunks("new")] >>,
     << SectionOf("a", "x") >>,
     << SectionOf("a", "y") >>,
     << SectionOf("a", "y"), SectionOf("b", "y") >>,
     << SectionOf("b", "y"), SectionOf("a", "y") >>,
     << SectionOf("a", "x"), SectionOf("a", "y") >>,
     << SectionOf("a", "y"), SectionOf("a/x", "x") >>}

CmdDocs ==
    {SyncDocText(ks, "notes") : ks \in CmdSections}
    \cup {SyncDocText(<< SectionOf("a", "y") >>, "bare")}
    \cup BrokenDocs

CmdInit ==
    /\ skills \in CmdStores
    /\ agents_file \in {NoFile} \cup {[exists |-> TRUE, text |-> t] : t \in CmdDocs}
    /\ git \in {[is_repo |-> FALSE, head |-> EmptyMap], [is_repo |-> TRUE, head |-> skills]}
    /\ cmd \in Commands
    /\ pc = "idle"
    /\ err = ""
    /\ agents_doc = << >>
    /\ original_agents = None
    /\ all_names = << >>
    /\ updated = FALSE
    /\ statuses = EmptyMap
    /\ events = << >>
    /\ skills0 = skills
    /\ agents0 = agents_file
    /\ prev = [ok |-> FALSE, changed |-> FALSE]
    /\ ResolveOff
    /\ DocOff
    /\ LifeOff

SpecCmd == CmdInit /\ [][CmdNext]_vars

TypeSync == pc \in {"idle", "loop", "commit", "done", "pulled", "failed"}

\* ------------------------------------------------------------------------
\* run_sync: properties
\* ------------------------------------------------------------------------
InRun == pc \in {"loop", "commit", "done", "failed"}

HasEvent(op) == \E i \in 1..Len(events) : events[i].op = op

HasEventFor(op, name) == \E i \in 1..Len(events) : events[i].op = op /\ events[i].name = name

\* the document as it was when the run started
segments0 == parse(agents0.text).segments

names0 == NameSet(section_names(segments0))

\* the document as the file holds it now
segments_now == IF agents_file = agents0 THEN segments0 ELSE parse(agents_file.text).segments

\* C4: when stdin ends at a prompt the run fails there: the document file
\* is not written, the commit step is not invoked, and every skill saved
\* before in the run holds what was saved, the other skills what they held.
C4_InputClosedAborts ==
    err = "stdin closed" =>
        /\ pc = "failed"
        /\ agents_file = agents0
        /\ ~HasEvent("write")
        /\ ~HasEvent("commit_skills_repo")
        /\ \A i \in 1..Len(events) :
              events[i].op = "save_skill" =>
                  /\ events[i].name \in DOMAIN skills
                  /\ skills[events[i].name] = events[i].text
        /\ \A n \in DOMAIN skills0 :
              ~HasEventFor("save_skill", n) => n \in DOMAIN skills /\ skills[n] = skills0[n]

\* stdin ended at the prompt of one name after another name was resolved
\* and saved
C4_Witness ==
    /\ err = "stdin closed"
    /\ HasEvent("resolve")
    /\ skills # skills0

\* The table of section 3 for one name
Classified(name, store, segments) ==
    LET in_store == name \in DOMAIN store
        in_doc == has_section(segments, name)
    IN  CASE in_store /\ ~in_doc -> "Local"
          [] ~in_store /\ in_doc -> "Remote"
          [] in_store /\ in_doc ->
                IF normalize_content(store[name])
                       = normalize_content(content_string(get_section(segments, name)))
                THEN "InSync" ELSE "Conflict"

TotalOver(st, store, segments) ==
    /\ DOMAIN st = DOMAIN store \cup NameSet(section_names(segments))
    /\ \A n \in DOMAIN st : st[n] = Classified(n, store, segments)

Computed == pc \in {"loop", "commit", "done"} /\ agents0.exists

\* C5 as claimed: compute_sync_status has exactly one entry, with the class
\* of the table, for every name of the store or of the document, and no
\* other entry.
C5_StatusTotality == Computed => TotalOver(statuses, skills0, segments0)

\* C5 as amended: so it is when the document has a section; for a document
\* without sections the result is empty whatever the store holds.
C5_StatusTotalityWithSections ==
    Computed =>
        LET s0 == segments0
        IN  IF section_names(s0) # << >> THEN TotalOver(statuses, skills0, s0)
            ELSE statuses = EmptyMap

\* the status was computed for a name only in the store, a name only in
\* the document and a name in both
C5_Witness ==
    /\ Computed
    /\ \E n \in DOMAIN statuses : statuses[n] = "Local"
    /\ \E n \in DOMAIN statuses : statuses[n] = "Remote"
    /\ \E n \in DOMAIN statuses : statuses[n] = "Conflict"

NoWrites == ~HasEvent("save_skill") /\ ~HasEvent("write")

C7_NoSectionAdded ==
    InRun =>
        /\ agents_file.exists = agents0.exists
        /\ agents_file # agents0 =>
              /\ parse(agents_file.text).ok = parse(agents0.text).ok
              /\ section_names(segments_now) = section_names(segments0)
        /\ ~HasEvent("resolve") => agents_file = agents0

\* a run ended well that wrote the document, a skill without a section in
\* the store; and a run ended well that adopted a section
C7_Witness ==
    /\ pc = "done"
    /\ HasEvent("write")
    /\ \E n \in DOMAIN skills0 : n \notin names0

\* the texts conflict resolution can return for a skill and a section
Resolutions(skill, agents) ==
    {resolve_conflicts_interactive(skill, agents, lines).text : lines \in StdinSeqs}

\* C8: run_sync leaves every skill without a section in the document as it
\* was, deletes no skill, and changes the content of a skill that existed
\* only to what conflict resolution returned for that name.
C8_NoSilentOverwrite ==
    InRun =>
        \A n \in DOMAIN skills0 :
            /\ n \in DOMAIN skills
            /\ skills[n] # skills0[n] =>
                  /\ n \in names0
                  /\ HasEventFor("resolve", n)
                  /\ skills[n] \in Resolutions(skills0[n],
                                               content_string(get_section(segments0, n)))

\* a run ended well that changed one skill, another skill having no
\* section in the document
C8_Witness ==
    /\ pc = "done"
    /\ \E n \in DOMAIN skills0 : skills[n] # skills0[n]
    /\ \E n \in DOMAIN skills0 : n \notin names0

Adopted == names0 \ DOMAIN skills0

\* C9: after a run that ended well every section whose name was not in the
\* store is a skill of that name with the content of the section; the
\* section is in the document as before, and the document file holds the
\* same bytes when no conflict was resolved in the run.
C9_Adoption ==
    (pc = "done" /\ agents0.exists) =>
        /\ LET s0 == segments0
               s1 == segments_now
           IN  \A n \in NameSet(section_names(s0)) \ DOMAIN skills0 :
                   /\ n \in DOMAIN skills
                   /\ skills[n] = content_string(get_section(s0, n))
                   /\ has_section(s1, n)
                   /\ get_section(s1, n) = get_section(s0, n)
        /\ ~HasEvent("resolve") => agents_file = agents0

\* a run ended well that adopted a section, and another that adopted one
\* and resolved a conflict
C9_Witness == pc = "done" /\ Adopted # {} /\ HasEvent("resolve")

\* C10: after a run that ended well, for every name it resolved: with
\* 'agents' chosen the skill holds the content the section had, with
\* 'skill' chosen the skill holds what it held; and the section of the
\* document is the one made from the content of the skill.
C10_EndToEndResolution ==
    pc = "done" =>
        \A i \in 1..Len(events) :
            events[i].op = "resolve" =>
                LET n == events[i].name
                    choices == events[i].text
                IN  /\ (\A k \in 1..Len(choices) : choices[k] = "Agents") =>
                           skills[n] = content_string(get_section(segments0, n))
                    /\ (\A k \in 1..Len(choices) : choices[k] = "Skill") =>
                           skills[n] = skills0[n]
                    /\ get_section(segments_now, n) = from_content(n, skills[n])

\* the names of the resolve events of the run, in the order of the events
ResolvedNames == SelectSeq([i \in 1..Len(events) |-> events[i]],
                           LAMBDA e : e.op = "resolve")

IndexIn(seq, x) == CHOOSE i \in 1..Len(seq) : seq[i] = x /\ \A j \in 1..(i - 1) : seq[j] # x

\* every resolution is complete, saved to the store, before the next event
OneAtATime ==
    \A i \in 1..Len(events) :
        events[i].op = "resolve" =>
            /\ i < Len(events)
            /\ events[i + 1].op = "save_skill"
            /\ events[i + 1].name = events[i].name

\* C11 as claimed: the names are resolved one at a time, in the order in
\* which section_names() lists them for the document.
C11_ResolutionOrder ==
    InRun =>
        /\ OneAtATime
        /\ LET listed == section_names(segments0)
               r == ResolvedNames
           IN  \A i, j \in 1..Len(r) :
                   i < j => IndexIn(listed, r[i].name) < IndexIn(listed, r[j].name)

\* C11 as amended: the names are resolved one at a time, each name once, in
\* the ascending order of the names (the order of the BTreeSet all_names).
C11_ResolutionOrderSorted ==
    InRun =>
        /\ OneAtATime
        /\ LET r == ResolvedNames
           IN  \A i, j \in 1..Len(r) :
                   i < j => IndexIn(NameOrder, r[i].name) < IndexIn(NameOrder, r[j].name)

\* a run ended well that resolved two names of a document that lists the
\* greater name first
C11_Witness ==
    /\ pc = "done"
    /\ Len(ResolvedNames) = 2
    /\ LET listed == section_names(segments0)
       IN  IndexIn(listed, "b") < IndexIn(listed, "a")

\* the document the run started from is one parse rejects
Malformed0 == agents0.exists /\ ~parse(agents0.text).ok

\* C13: when the document is malformed the run fails before any effect: no
\* skill is saved, the document file is not written and the commit step is
\* not invoked.
C13_MalformedNoSideEffect ==
    (InRun /\ Malformed0) =>
        /\ pc = "failed"
        /\ err = "malformed document"
        /\ events = << >>
        /\ skills = skills0
        /\ agents_file = agents0

\* a run failed on a document with a whole section b that has no skill,
\* before a section a left open, in a store that is a repository
C13_Witness ==
    /\ pc = "failed"
    /\ Malformed0
    /\ MarkerLines(agents0.text)[1] = [start |-> TRUE, name |-> "b"]
    /\ "b" \notin DOMAIN skills
    /\ git.is_repo

\* the calls of the commit step
CommitStepOps == {"commit_skills_repo", "git rev-parse", "git add", "git status", "git commit"}

GitErrors == {"git add failed", "git status failed", "git commit failed"}

EventIndexes(op) == {i \in 1..Len(events) : events[i].op = op}

\* C17: when the document file does not exist, run_sync creates no
\* document and reads and writes no skill: it goes to the commit step and
\* ends as the commit step ends.
C17_MissingDocument ==
    (InRun /\ ~agents0.exists) =>
        /\ ~agents_file.exists
        /\ skills = skills0
        /\ \A i \in 1..Len(events) : events[i].op \in CommitStepOps
        /\ pc \in {"commit", "done", "failed"}
        /\ pc = "commit" => events = << >>
        /\ pc # "commit" => EventIndexes("commit_skills_repo") = {1}
        /\ pc = "failed" => err \in GitErrors

\* a run without a document file ended well, the store holding skills and
\* being a repository
C17_Witness ==
    /\ pc = "done"
    /\ ~agents0.exists
    /\ DOMAIN skills = ValidNames
    /\ git.is_repo

\* the calls of one turn of the loop
LoopOps == {"validate_name", "skill_exists", "load_skill", "resolve", "save_skill"}

\* C18: in a run the document file is written at most once, after every
\* section name was processed, and only if a section was resolved in the
\* run or the rendered text differs from the text read.
C18_WriteOnce ==
    InRun =>
        /\ Cardinality(EventIndexes("write")) <= 1
        /\ \A w \in EventIndexes("write") :
              /\ pc \in {"commit", "done", "failed"}
              /\ all_names = << >>
              /\ \A i \in 1..Len(events) : events[i].op \in LoopOps => i < w
              /\ \A n \in names0 :
                    \E i \in 1..(w - 1) : events[i].op = "validate_name" /\ events[i].name = n
              /\ HasEvent("resolve") \/ events[w].text # agents0.text

\* a run ended well that wrote the document after it resolved one name and
\* adopted another
C18_Witness ==
    /\ pc = "done"
    /\ Cardinality(EventIndexes("write")) = 1
    /\ Len(ResolvedNames) = 1
    /\ Adopted # {}

\* the commit step, as a step of the run
CommitStepEffect ==
    (pc = "commit" /\ pc' # "commit") =>
        LET new == SubSeq(events', Len(events) + 1, Len(events'))
            ops == [i \in 1..Len(new) |-> new[i].op]
        IN  /\ skills' = skills
            /\ agents_file' = agents_file
            /\ IF ~git.is_repo
               THEN pc' = "done" /\ git' = git
                    /\ ops = << "commit_skills_repo", "git rev-parse" >>
               ELSE pc' = "done" =>
                       IF git.head = skills
                       THEN /\ git' = git
                            /\ ops = << "commit_skills_repo", "git rev-parse", "git add",
                                        "git status" >>
                       ELSE /\ git' = [is_repo |-> TRUE, head |-> skills]
                            /\ ops = << "commit_skills_repo", "git rev-parse", "git add",
                                        "git status", "git commit" >>
                            /\ new[5].name = "Update skills"

\* C19: the commit step is invoked exactly once in a run that ends well,
\* after every save of a skill and after the write of the document; it
\* stages and commits nothing when the store is not a repository, commits
\* nothing when the working tree is clean after staging, and makes one
\* commit with the fixed message otherwise.
C19_CommitStep ==
    /\ [](pc = "done" =>
            /\ Cardinality(EventIndexes("commit_skills_repo")) = 1
            /\ \A c \in EventIndexes("commit_skills_repo") :
                  \A i \in 1..Len(events) :
                      events[i].op \in LoopOps \cup {"write"} => i < c)
    /\ [][CommitStepEffect]_vars

\* a run ended well that saved a skill, wrote the document and made a
\* commit
C19_Witness ==
    /\ pc = "done"
    /\ HasEvent("save_skill")
    /\ HasEvent("write")
    /\ Cardinality(EventIndexes("git commit")) = 1

\* the section named on the command line is in the document the command
\* started from, and the skill in the store
InBoth ==
    /\ cmd.op \in {"delete", "delete-globally"}
    /\ cmd.names[1] \in DOMAIN skills0
    /\ StartLines(agents0.text, cmd.names[1]) # {}

\* C15: for a skill in the store and in the document, delete-globally takes
\* the marker block out of the document and the skill out of the store;
\* delete takes only the marker block out and leaves the store as it was.
C15_DeleteVersusGlobal ==
    (pc = "done" /\ InBoth) =>
        LET name == cmd.names[1]
        IN  /\ agents_file = [exists |-> TRUE, text |-> WithoutBlock(agents0.text, name)]
            /\ IF cmd.op = "delete-globally"
               THEN /\ DOMAIN skills = DOMAIN skills0 \ {name}
                    /\ \A n \in DOMAIN skills : skills[n] = skills0[n]
               ELSE skills = skills0

\* delete ended well for a skill of the store with a section in a document
\* that has another section; the store holds two skills
C15_Witness ==
    /\ pc = "done"
    /\ InBoth
    /\ cmd.op = "delete"
    /\ DOMAIN skills = ValidNames
    /\ Len(MarkerLines(agents_file.text)) = 2

StoreOps == {"skill_exists", "load_skill", "save_skill", "delete_skill"}

\* C16: in get, set, sync, delete and delete-globally, a call on the store
\* with a name of the command line or of the document comes after
\* validate_name passed for that name; a name that fails validation ends
\* the command there, the store not touched for that name.
C16_ValidationFirst ==
    \A i \in 1..Len(events) :
        /\ events[i].op \in StoreOps =>
              /\ validate_name(events[i].name)
              /\ \E j \in 1..(i - 1) :
                    events[j].op = "validate_name" /\ events[j].name = events[i].name
        /\ (events[i].op = "validate_name" /\ ~validate_name(events[i].name)) =>
              /\ i = Len(events)
              /\ pc = "failed"
              /\ err = "invalid name"
              /\ \A j \in 1..Len(events) :
                    events[j].op \in StoreOps => events[j].name # events[i].name

\* get loaded a skill and then failed on a name that is not valid
C16_Witness ==
    /\ cmd.op = "get"
    /\ pc = "failed"
    /\ err = "invalid name"
    /\ HasEvent("load_skill")

\* C20: sync_remote makes at most one call of git pull --rebase, after
\* run_sync and its commit step ended well; it makes none when the store
\* is not a repository and none when run_sync fails.
C20_PullOnce ==
    LET pulls == EventIndexes("git pull --rebase")
    IN  /\ Cardinality(pulls) <= 1
        /\ \A p \in pulls :
              /\ cmd.op = "sync-remote"
              /\ git.is_repo
              /\ pc \in {"pulled", "failed"}
              /\ pc = "failed" => err = "git pull --rebase failed"
              /\ \E c \in 1..(p - 1) : events[c].op = "commit_skills_repo"
              /\ \A i \in 1..Len(events) :
                    events[i].op \in LoopOps \cup CommitStepOps \cup {"write"} => i < p
        /\ ~git.is_repo => pulls = {}
        /\ (pc = "failed" /\ err # "git pull --rebase failed") =>
              pulls = {} /\ ~HasEvent("git_pull_rebase")
        /\ (pc = "pulled" /\ git.is_repo) => Cardinality(pulls) = 1

\* sync-remote ended well: it saved a skill, made a commit and pulled
C20_Witness ==
    /\ pc = "pulled"
    /\ HasEvent("save_skill")
    /\ HasEvent("git commit")
    /\ EventIndexes("git pull --rebase") # {}

\* the error of the run for a git call that exits non-zero
ErrorOf(op) == op \o " failed"

FailedCalls ==
    {i \in 1..Len(events) :
        events[i].op \in {"git add", "git status", "git commit", "git pull --rebase"}
            /\ events[i].text = NonZero}

\* C21: a non-zero exit of git add, git status, git commit or git pull
\* makes the run fail with the error of that call and ends it: it is the
\* last call of the run, and what the run saved to the store and wrote to
\* the document before is still there.
C21_GitFailureAborts ==
    /\ \A i \in FailedCalls :
          /\ i = Len(events)
          /\ pc = "failed"
          /\ err = ErrorOf(events[i].op)
          /\ \A j \in 1..(i - 1) :
                /\ events[j].op = "save_skill" =>
                      /\ events[j].name \in DOMAIN skills
                      /\ skills[events[j].name] = events[j].text
                /\ events[j].op = "write" => agents_file = [exists |-> TRUE,
                                                             text |-> events[j].text]
    /\ (pc = "failed" /\ err \in GitErrors \cup {"git pull --rebase failed"}) =>
          FailedCalls # {}

\* git commit failed in a run that had saved a skill and written the
\* document
C21_Witness ==
    /\ pc = "failed"
    /\ err = "git commit failed"
    /\ HasEvent("save_skill")
    /\ HasEvent("write")

Printed == SelectSeq(events, LAMBDA e : e.op = "println")

\* the mark of a section name, from the store and the document the command
\* started with
ExpectedMark(name) ==
    IF name \notin DOMAIN skills0 THEN "remote"
    ELSE IF normalize_content(skills0[name])
              = normalize_content(content_string(get_section(segments0, name)))
         THEN ""
         ELSE "conflict"

\* C22: the local listing prints nothing when the document is missing or
\* has no section, whatever the store holds; otherwise it prints the
\* section names of the document, in document order, each with its
\* out-of-sync mark.
C22_LocalListing ==
    (cmd.op = "local" /\ pc = "done") =>
        IF ~agents0.exists \/ section_names(segments0) = << >>
        THEN Printed = << >>
        ELSE LET names == section_names(segments0)
             IN  /\ Len(Printed) = Len(names)
                 /\ \A i \in 1..Len(names) :
                       /\ Printed[i].name = names[i]
                       /\ Printed[i].text = << ExpectedMark(names[i]) >>

\* a listing of two sections, one in conflict and one the store lacks
C22_Witness ==
    /\ cmd.op = "local" /\ pc = "done"
    /\ \E i, j \in 1..Len(Printed) :
          /\ Printed[i].text = << "conflict" >>
          /\ Printed[j].text = << "remote" >>

\* a listing that prints nothing though the store holds a skill
C22_SilentWithSkills ==
    /\ cmd.op = "local" /\ pc = "done"
    /\ DOMAIN skills # {}
    /\ agents0.exists
    /\ Printed = << >>

\* the saves and deletes of a name before the i-th operation
Writes(name, i) ==
    {j \in 1..(i - 1) : events[j].name = name
                           /\ events[j].op \in {"save_skill", "delete_skill"}}

\* what a map holds for a name after the operations before the i-th
MapAt(name, i) ==
    LET ws == Writes(name, i)
        last == CHOOSE j \in ws : \A k \in ws : k <= j
    IN  IF ws = {} THEN None
        ELSE IF events[last].op = "delete_skill" THEN None
        ELSE Some(events[last].text)

StoreAsMap ==
    /\ \A i \in 1..Len(events) :
          /\ events[i].op = "load_skill" => events[i].text = MapAt(events[i].name, i)
          /\ events[i].op = "skill_exists" =>
                events[i].text = MapAt(events[i].name, i).some
    /\ \A name \in ValidNames :
          load_skill(skills, name) = MapAt(name, Len(events) + 1)

DeleteAbsent ==
    \A name \in ValidNames :
        (name \notin DOMAIN skills
            /\ events' = Append(events, Event("delete_skill", name, << >>)))
        => (skills' = skills /\ err' = "" /\ pc' = pc)

\* C23: the Skill Store is a map: after any sequence of saves and deletes,
\* load of a name gives the content of its most recent save when no delete
\* of the name came after it and NotFound otherwise, exists says whether
\* load would succeed, and a delete of an absent name changes nothing and
\* does not fail.
C23_StoreIsMap == []StoreAsMap /\ [][DeleteAbsent]_vars

\* a load that finds the second of two saves of a name, and one that finds
\* nothing after a delete
C23_Witness ==
    \E i, j \in 1..Len(events) :
        /\ events[i].op = "load_skill" /\ events[i].text.some
        /\ Cardinality({w \in Writes(events[i].name, i) :
                            events[w].op = "save_skill"}) >= 2
        /\ events[j].op = "load_skill" /\ ~events[j].text.some
        /\ Writes(events[j].name, j) # {}

\* the lines a hunk gives under a choice: per op in order, the lines of an
\* unchanged op, and of a change the local lines when local is chosen and
\* the remote lines when remote is chosen
HunkText(old_lines, new_lines, group, choice) ==
    Flatten([j \in 1..Len(group) |->
        IF group[j].tag = "Equal" \/ choice = "Skill"
        THEN Lines(old_lines, group[j].old_index, group[j].old_len)
        ELSE Lines(new_lines, group[j].new_index, group[j].new_len)])

HunksOf(old_text, new_text) ==
    group_diff_ops(diff_ops(tokenize_lines(old_text), tokenize_lines(new_text)),
                   ContextRadius)

\* C24: the resolved text is, hunk after hunk in hunk order, the lines of
\* the hunk in their order with every unchanged line kept, a local-only
\* line kept exactly when local was chosen for the hunk and a remote-only
\* line kept exactly when remote was chosen.
C24_HunkContent ==
    Resolved =>
        LET groups == HunksOf(skill_content, agents_content)
        IN  /\ Len(resolution.choices) = Len(groups)
            /\ resolution.text =
                  Flatten([g \in 1..Len(groups) |->
                      HunkText(tokenize_lines(skill_content),
                               tokenize_lines(agents_content),
                               groups[g], resolution.choices[g])])

\* two hunks resolved with different choices
C24_Witness ==
    /\ Resolved
    /\ Len(resolution.choices) = 2
    /\ resolution.choices[1] # resolution.choices[2]
    /\ resolution.text # skill_content
    /\ resolution.text # agents_content

C25_NoChoiceAsked ==
    (rpc = "returned" /\ skill_content = agents_content) =>
        /\ resolution.ok
        /\ resolution.choices = << >>
        /\ resolution.rest = input

\* the hunks that hold the change op
HunksHolding(groups, op) ==
    {g \in 1..Len(groups) :
        \E j \in 1..Len(groups[g]) :
            /\ groups[g][j].tag = op.tag
            /\ groups[g][j].old_index = op.old_index
            /\ groups[g][j].new_index = op.new_index}

\* an unchanged run between two changes too long for the context lines
\* after the one and before the other to meet
FarApart(ops, j) ==
    /\ j \in 2..(Len(ops) - 1)
    /\ ops[j].tag = "Equal"
    /\ ops[j].old_len > 2 * ContextRadius

ChangeIndexes(ops) == {k \in 1..Len(ops) : ops[k].tag # "Equal"}

\* C26: two changes are in the same hunk exactly when the unchanged lines
\* between them are no more than the 3 context lines of each (6 lines);
\* every hunk holds a change and gets one choice; texts with a single
\* change give exactly one hunk.
C26_HunkGrouping ==
    Resolved =>
        LET ops == diff_ops(tokenize_lines(skill_content), tokenize_lines(agents_content))
            groups == group_diff_ops(ops, ContextRadius)
        IN  /\ Len(resolution.choices) = Len(groups)
            /\ \A k \in ChangeIndexes(ops) :
                  HunksHolding(groups, ops[k])
                      = {1 + Cardinality({j \in 1..(k - 1) : FarApart(ops, j)})}
            /\ \A g \in 1..Len(groups) :
                  \E k \in ChangeIndexes(ops) : g \in HunksHolding(groups, ops[k])
            /\ Cardinality(ChangeIndexes(ops)) = 1 => Len(groups) = 1

\* two changes six unchanged lines apart settled by one choice
C26_Witness ==
    /\ Resolved
    /\ Len(resolution.choices) = 1
    /\ LET ops == diff_ops(tokenize_lines(skill_content), tokenize_lines(agents_content))
       IN  /\ Cardinality(ChangeIndexes(ops)) = 2
           /\ \E j \in 2..(Len(ops) - 1) :
                 ops[j].tag = "Equal" /\ ops[j].old_len = 2 * ContextRadius

\* two changes seven unchanged lines apart, each with its own choice
C26_SeparateHunks ==
    /\ Resolved
    /\ Len(resolution.choices) = 2
    /\ LET ops == diff_ops(tokenize_lines(skill_content), tokenize_lines(agents_content))
       IN  \E j \in 2..(Len(ops) - 1) :
               ops[j].tag = "Equal" /\ ops[j].old_len = 2 * ContextRadius + 1

\* the lines of stdin the resolution has read
Consumed == SubSeq(input, 1, Len(input) - Len(resolution.rest))

IsChoice(line) == answer(line) \in {"s", "skill", "a", "agents"}

ChoiceOf(line) == IF answer(line) \in {"s", "skill"} THEN "Skill" ELSE "Agents"

\* C27 as stated: a resolution reads exactly one line of input per hunk.
C27_OneLinePerHunk ==
    Resolved =>
        Len(Consumed) = Len(HunksOf(skill_content, agents_content))

\* C27, amended: a resolution reads, per hunk, the lines up to the first
\* one that is a choice: the lines read hold exactly one choice line per
\* hunk, the last line read is a choice, the choices are those lines in
\* order, and the lines not read are left.
C27_OneChoiceLinePerHunk ==
    Resolved =>
        LET given == SelectSeq(Consumed, IsChoice)
        IN  /\ input = Consumed \o resolution.rest
            /\ Len(given) = Len(HunksOf(skill_content, agents_content))
            /\ Consumed # << >> => IsChoice(Consumed[Len(Consumed)])
            /\ resolution.choices = [i \in 1..Len(given) |-> ChoiceOf(given[i])]

\* one hunk settled by the second line read, the first not being a choice
C27_Witness ==
    /\ Resolved
    /\ Len(resolution.choices) = 1
    /\ Len(Consumed) = 2
    /\ ~IsChoice(Consumed[1])

\* what the section of a name held when the run started
content0(segs, name) == content_string(get_section(segs, name))

\* C28: for a name in the store and in the document whose contents are
\* equal once normalized though not as they are, run_sync asks no choice,
\* saves nothing under the name and leaves the skill and the section of
\* the document in memory as they were.
C28_NormalizedEqualSkipped ==
    InRun =>
        \A n \in ValidNames :
            (HasEventFor("load_skill", n)
                /\ skills0[n] # content0(segments0, n)
                /\ normalize_content(skills0[n])
                       = normalize_content(content0(segments0, n)))
            => /\ \A i \in 1..Len(events) :
                     events[i].name = n =>
                         events[i].op \notin {"resolve", "resolve (input closed)",
                                              "save_skill"}
               /\ n \in DOMAIN skills
               /\ skills[n] = skills0[n]
               /\ get_section(agents_doc, n) = get_section(segments0, n)

\* a run that ended well and met a skill ending in a carriage return and a
\* line feed whose section holds the same line
C28_Witness ==
    /\ pc = "done"
    /\ HasEventFor("load_skill", "a")
    /\ skills0["a"] = << "x", "\r", "\n" >>
    /\ normalize_content(skills0["a"]) = normalize_content(content0(segments0, "a"))

\* C30: a resolution is saved only with a choice for every hunk of the
\* name; when stdin closes after some of the hunks of a name, the run ends
\* there with nothing saved under the name: its skill, its section in the
\* document in memory and the document file are as they were before the
\* run.
C30_SaveAfterAllChoices ==
    InRun =>
        \A i \in 1..Len(events) :
            LET n == events[i].name
            IN  /\ events[i].op = "resolve" =>
                      Len(events[i].text) = Len(HunksOf(skills0[n], content0(segments0, n)))
                /\ events[i].op = "resolve (input closed)" =>
                      /\ Len(events[i].text) < Len(HunksOf(skills0[n], content0(segments0, n)))
                      /\ i = Len(events)
                      /\ pc = "failed"
                      /\ ~HasEventFor("save_skill", n)
                      /\ n \in DOMAIN skills
                      /\ skills[n] = skills0[n]
                      /\ get_section(agents_doc, n) = get_section(segments0, n)
                      /\ agents_file = agents0

\* stdin closed at the second hunk of a name, after a choice for the first
C30_Witness ==
    /\ pc = "failed"
    /\ \E i \in 1..Len(events) :
          /\ events[i].op = "resolve (input closed)"
          /\ Len(events[i].text) = 1
          /\ Len(HunksOf(skills0[events[i].name],
                         content0(segments0, events[i].name))) = 2

\* C29: upsert_section of a name that has a section puts the given section
\* in its place and leaves the number, the order and the content of the
\* other segments; of a name that has none it keeps every segment and
\* adds one section, the given one, after the last of them, with nothing
\* but a blank line between; either way get_section of the name then
\* gives the given section.
C29_UpsertFrame ==
    dpc = "upserted" =>
        LET before == doc.segments
            after == upsert.segments
            given == upsert.section
            named == {i \in SectionIndexes(before) : before[i].name = given.name}
        IN  /\ IF named # {}
               THEN /\ Len(after) = Len(before)
                    /\ \E i \in named :
                          /\ \A j \in named : i <= j
                          /\ after[i] = given
                          /\ \A j \in 1..Len(before) : j # i => after[j] = before[j]
               ELSE /\ Len(after) > Len(before)
                    /\ SubSeq(after, 1, Len(before)) = before
                    /\ after[Len(after)] = given
                    /\ \A j \in (Len(before) + 1)..(Len(after) - 1) :
                          after[j] = FreeText(<< "\n" >>)
            /\ has_section(after, given.name)
            /\ get_section(after, given.name) = given

\* a section replaced between two free texts
C29_Witness ==
    /\ dpc = "upserted"
    /\ Len(doc.segments) >= 3
    /\ has_section(doc.segments, upsert.section.name)
    /\ doc.segments[1].kind = "FreeText"
    /\ doc.segments[Len(doc.segments)].kind = "FreeText"
    /\ upsert.segments # doc.segments

\* a section appended to a document that holds a section of another name
C29_Appended ==
    /\ dpc = "upserted"
    /\ section_names(doc.segments) # << >>
    /\ ~has_section(doc.segments, upsert.section.name)
    /\ Len(upsert.segments) > Len(doc.segments)

\* C31: after a run of run_sync that ended well on a document that exists,
\* every section name of the document file is a skill of the store, and
\* compute_sync_status on the store and the file gives InSync for it: the
\* normalized contents of the skill and of the section are equal.
C31_SyncedAfterRun ==
    (pc = "done" /\ cmd.op \in {"sync", "sync-remote"} /\ agents0.exists) =>
        LET segs == segments_now
            found == compute_sync_status(skills, TRUE, segs)
        IN  \A n \in NameSet(section_names(segs)) :
                /\ n \in DOMAIN skills
                /\ found[n] = "InSync"
                /\ normalize_content(skills[n])
                       = normalize_content(content_string(get_section(segs, n)))

\* a run that ended well on a document of two section names, one adopted
\* and one resolved
C31_Witness ==
    /\ pc = "done"
    /\ cmd.op = "sync"
    /\ HasEvent("resolve")
    /\ \E n \in DOMAIN skills : n \notin DOMAIN skills0
    /\ Cardinality(NameSet(section_names(segments_now))) = 2

\* ------------------------------------------------------------------------
\* Running a command with fallback candidates (lifecycle.rs)
\* ------------------------------------------------------------------------
\* A candidate program stands for what running it gives: it exits with
\* success, exits with a failure, is not found on PATH, or cannot be started
\* for another reason.
Programs == {"exits 0", "exits 1", "not found", "cannot start"}

\* Result<(), CommandError>
CommandOk == [ok |-> TRUE, error |-> "", message |-> ""]

NotFound(program) == [ok |-> FALSE, error |-> "NotFound", message |-> program]

Other(message) == [ok |-> FALSE, error |-> "Other", message |-> message]

run_command_once(program) ==
    CASE program = "not found"    -> NotFound(program)
      [] program = "cannot start" -> Other("failed to run command")
      [] program = "exits 1"      -> Other("command failed")
      [] OTHER                    -> CommandOk

\* the loop of run_command_with_fallback from candidate i on; tried lists
\* the candidates run_command_once was called for
RECURSIVE fallback_from_stops_never(_, _, _)
fallback_from_stops_never(candidates, i, tried) ==
    IF i > Len(candidates)
    THEN [ok |-> FALSE,
          error |-> IF tried = << >> THEN "no command candidates provided"
                    ELSE "none of the candidate commands were found on PATH",
          tried |-> tried]
    ELSE LET once == run_command_once(candidates[i])
         IN  IF once.ok
             THEN [ok |-> TRUE, error |-> "", tried |-> Append(tried, i)]
             ELSE fallback_from_stops_never(candidates, i + 1, Append(tried, i))

RECURSIVE fallback_from(_, _, _)
fallback_from(candidates, i, tried) ==
    IF i > Len(candidates)
    THEN [ok |-> FALSE,
          error |-> IF tried = << >> THEN "no command candidates provided"
                    ELSE "none of the candidate commands were found on PATH",
          tried |-> tried]
    ELSE LET once == run_command_once(candidates[i])
         IN  CASE once.ok -> [ok |-> TRUE, error |-> "", tried |-> Append(tried, i)]
               [] once.error = "NotFound" ->
                      fallback_from(candidates, i + 1, Append(tried, i))
               [] OTHER -> [ok |-> FALSE, error |-> once.message,
                            tried |-> Append(tried, i)]

run_command_with_fallback(candidates) == fallback_from(candidates, 1, << >>)

CandidateLists == SeqsUpTo(Programs, MaxPrograms)

FallbackInit ==
    /\ programs \in CandidateLists
    /\ command = NoCommand
    /\ fpc = "call"
    /\ state = EmptyMap
    /\ last_call = NoCall
    /\ failures = 0
    /\ lpc = "off"
    /\ ResolveOff
    /\ DocOff
    /\ SyncOff

Fallback ==
    /\ fpc = "call"
    /\ command' = run_command_with_fallback(programs)
    /\ fpc' = "returned"
    /\ UNCHANGED << programs, state, last_call, failures, lpc >>
    /\ UNCHANGED << resolve_vars, doc_vars, sync_vars >>

SpecFallback == FallbackInit /\ [][Fallback]_vars

\* the candidates that are found, in list order
Found(candidates) ==
    SelectSeq([i \in 1..Len(candidates) |-> i],
              LAMBDA i : candidates[i] # "not found")

\* C38: run_command_with_fallback tries the candidates in list order, up to
\* and including the first that is found, and none after it; that candidate
\* decides the result, success if it exits with success and an error
\* otherwise; without a found candidate, and so for an empty list, every
\* candidate is tried and the result is an error.
C38_FirstFoundDecides ==
    fpc = "returned" =>
        LET found == Found(programs)
        IN  IF found = << >>
            THEN /\ ~command.ok
                 /\ command.tried = [i \in 1..Len(programs) |-> i]
            ELSE /\ command.tried = [i \in 1..found[1] |-> i]
                 /\ command.ok <=> programs[found[1]] = "exits 0"

\* C38 witness: a candidate that is not found, then one that fails, then one
\* that would succeed: the call fails and never starts the third.
C38_Witness ==
    /\ fpc = "returned"
    /\ Len(programs) = 3
    /\ programs[1] = "not found" /\ programs[2] = "exits 1" /\ programs[3] = "exits 0"
    /\ ~command.ok
    /\ command.tried = << 1, 2 >>

\* ------------------------------------------------------------------------
\* The lifecycle of the plan steps (state.rs, lifecycle.rs)
\* ------------------------------------------------------------------------
LastLifecycle == 5

\* enum StepState; stage is the u8 of LifecycleError and 0 otherwise
StepState(kind, stage) == [kind |-> kind, stage |-> stage]

Planned == StepState("Planned", 0)

Implemented == StepState("Implemented", 0)

ImplementedChecked == StepState("ImplementedChecked", 0)

ImplementedTested == StepState("ImplementedTested", 0)

ImplementedFinalized == StepState("ImplementedFinalized", 0)

ImplementedCommitted == StepState("ImplementedCommitted", 0)

LifecycleError(stage) == StepState("LifecycleError", stage)

\* StateFile::state_for: a step without a recorded state is Planned
state_for(steps, id) == IF id \in DOMAIN steps THEN steps[id] ELSE Planned

set_state_forgets(steps, id, step_state) == steps

\* StateFile::set_state
set_state(steps, id, step_state) ==
    [n \in DOMAIN steps \cup {id} |-> IF n = id THEN step_state ELSE steps[n]]

\* StateFile::save, when the write succeeds
save(steps) == [exists |-> TRUE, steps |-> steps]

\* StateFile::load: a missing file gives the default, no recorded state
load(file) == IF file.exists THEN file.steps ELSE EmptyMap

\* (current_state, next_state, action_label) of a lifecycle
Mapping(current_state, next_state, action_label) ==
    [ok |-> TRUE, current_state |-> current_state, next_state |-> next_state,
     action_label |-> action_label]

lifecycle_mapping_skips_a_stage(lifecycle) ==
    CASE lifecycle = 1 -> Mapping(Planned, Implemented, "implement")
      [] lifecycle = 2 -> Mapping(Implemented, ImplementedTested, "validate")
      [] lifecycle = 3 -> Mapping(ImplementedChecked, ImplementedTested, "test")
      [] lifecycle = 4 -> Mapping(ImplementedTested, ImplementedFinalized, "finalize")
      [] lifecycle = 5 -> Mapping(ImplementedFinalized, ImplementedCommitted, "commit")
      [] OTHER -> [ok |-> FALSE, current_state |-> Planned, next_state |-> Planned,
                   action_label |-> "invalid lifecycle"]

lifecycle_mapping(lifecycle) ==
    CASE lifecycle = 1 -> Mapping(Planned, Implemented, "implement")
      [] lifecycle = 2 -> Mapping(Implemented, ImplementedChecked, "validate")
      [] lifecycle = 3 -> Mapping(ImplementedChecked, ImplementedTested, "test")
      [] lifecycle = 4 -> Mapping(ImplementedTested, ImplementedFinalized, "finalize")
      [] lifecycle = 5 -> Mapping(ImplementedFinalized, ImplementedCommitted, "commit")
      [] OTHER -> [ok |-> FALSE, current_state |-> Planned, next_state |-> Planned,
                   action_label |-> "invalid lifecycle"]

\* Option<u8>, the lifecycle override
NoOverride == [some |-> FALSE, lifecycle |-> 0]

Override(lifecycle) == [some |-> TRUE, lifecycle |-> lifecycle]

\* Result<Option<NextAction>>
NextAction(step, lifecycle) ==
    [kind |-> "Some", step |-> step, lifecycle |-> lifecycle, error |-> ""]

NoAction == [kind |-> "None", step |-> "", lifecycle |-> 0, error |-> ""]

ActionErr(error) == [kind |-> "Err", step |-> "", lifecycle |-> 0, error |-> error]

\* the loop of next_action without an override, from step i on
RECURSIVE next_from_skips_errors(_, _, _)
next_from_skips_errors(steps, recorded, i) ==
    IF i > Len(steps) THEN NoAction
    ELSE LET step_state == state_for(recorded, steps[i])
         IN  CASE step_state = Planned              -> NextAction(steps[i], 1)
               [] step_state = Implemented          -> NextAction(steps[i], 2)
               [] step_state = ImplementedChecked   -> NextAction(steps[i], 3)
               [] step_state = ImplementedTested    -> NextAction(steps[i], 4)
               [] step_state = ImplementedFinalized -> NextAction(steps[i], 5)
               [] OTHER -> next_from_skips_errors(steps, recorded, i + 1)

RECURSIVE next_from(_, _, _)
next_from(steps, recorded, i) ==
    IF i > Len(steps) THEN NoAction
    ELSE LET step_state == state_for(recorded, steps[i])
         IN  CASE step_state = Planned              -> NextAction(steps[i], 1)
               [] step_state = Implemented          -> NextAction(steps[i], 2)
               [] step_state = ImplementedChecked   -> NextAction(steps[i], 3)
               [] step_state = ImplementedTested    -> NextAction(steps[i], 4)
               [] step_state = ImplementedFinalized -> NextAction(steps[i], 5)
               [] step_state.kind = "LifecycleError" ->
                      IF step_state.stage \notin 1..LastLifecycle
                      THEN ActionErr("invalid lifecycle error stage")
                      ELSE NextAction(steps[i], step_state.stage)
               [] OTHER -> next_from(steps, recorded, i + 1)

next_action(steps, recorded, lifecycle_override) ==
    IF lifecycle_override.some
    THEN LET mapping == lifecycle_mapping(lifecycle_override.lifecycle)
             hits == {i \in 1..Len(steps) :
                         state_for(recorded, steps[i]) = mapping.current_state}
         IN  IF ~mapping.ok THEN ActionErr("invalid lifecycle")
             ELSE IF hits = {} THEN NoAction
             ELSE NextAction(steps[CHOOSE i \in hits : \A j \in hits : i <= j],
                             lifecycle_override.lifecycle)
    ELSE next_from(steps, recorded, 1)

\* one thing run_lifecycle ran: an agent call, a gate (n is its place among
\* the gates), a git call or the save of the state file
Ran(what, n, ok) == [what |-> what, n |-> n, ok |-> ok]

\* Result<()> with what was run for it
Done(ok, ran) == [ok |-> ok, ran |-> ran]

and_then(first, second) ==
    IF first.ok THEN Done(second.ok, first.ran \o second.ran) ELSE first

\* run_command_capture_with_fallback: the same loop, without the error for
\* an empty list
RECURSIVE capture_from(_, _)
capture_from(candidates, i) ==
    IF i > Len(candidates) THEN FALSE
    ELSE LET once == run_command_once(candidates[i])
         IN  CASE once.ok -> TRUE
               [] once.error = "NotFound" -> capture_from(candidates, i + 1)
               [] OTHER -> FALSE

run_command_capture_with_fallback(candidates) == capture_from(candidates, 1)

generate_resume_prompt(candidates) ==
    Done(run_command_capture_with_fallback(candidates), 
         << Ran("resume analysis", 0, run_command_capture_with_fallback(candidates)) >>)

run_cli_action(candidates) ==
    Done(run_command_with_fallback(candidates).ok,
         << Ran("agent action", 0, run_command_with_fallback(candidates).ok) >>)

\* the loop of run_gates from gate i on; a gate is one candidate program
RECURSIVE gates_from(_, _)
gates_from(gates, i) ==
    IF i > Len(gates) THEN Done(TRUE, << >>)
    ELSE LET gate == run_command_with_fallback(<< gates[i] >>)
         IN  IF gate.ok
             THEN and_then(Done(TRUE, << Ran("gate", i, TRUE) >>), gates_from(gates, i + 1))
             ELSE Done(FALSE, << Ran("gate", i, FALSE) >>)

run_gates(gates) == gates_from(gates, 1)

\* what git gives to run_git_commit: status is "cannot start", "clean" or
\* "dirty"; add and commit are what the two git calls give
GitEnv(status, add, commit) == [status |-> status, add |-> add, commit |-> commit]

run_git_commit(git_env) ==
    IF git_env.status = "cannot start"
    THEN Done(FALSE, << Ran("git status", 0, FALSE) >>)
    ELSE IF git_env.status = "clean"
    THEN Done(TRUE, << Ran("git status", 0, TRUE) >>)
    ELSE and_then(Done(TRUE, << Ran("git status", 0, TRUE) >>),
         and_then(Done(run_command_with_fallback(<< git_env.add >>).ok,
                       << Ran("git add", 0, run_command_with_fallback(<< git_env.add >>).ok) >>),
                  Done(run_command_with_fallback(<< git_env.commit >>).ok,
                       << Ran("git commit", 0,
                              run_command_with_fallback(<< git_env.commit >>).ok) >>)))

\* write_git_diff
write_git_diff(ok) == Done(ok, << Ran("git diff", 0, ok) >>)

\* what the surroundings give to one call of run_lifecycle
Env(diff, resume, agent, gates, git_env, save_ok) ==
    [diff |-> diff, resume |-> resume, agent |-> agent, gates |-> gates,
     git |-> git_env, save |-> save_ok]

\* Result<bool> of run_lifecycle with the state it leaves, what it ran and
\* the state file it wrote, if it wrote one
Outcome(ok, error, recorded, saved, ran) ==
    [ok |-> ok, error |-> error, state |-> recorded, saved |-> saved, ran |-> ran]

\* the part of run_lifecycle after the git diff and the resume analysis
execute_commits_first(recorded, step, lifecycle, env, before) ==
    LET mapping == lifecycle_mapping(lifecycle)
        execution_result ==
            IF lifecycle = 5
            THEN and_then(run_git_commit(env.git), run_gates(env.gates))
            ELSE and_then(run_gates(env.gates), run_cli_action(env.agent))
        failed == set_state(recorded, step, LifecycleError(lifecycle))
    IN  IF ~execution_result.ok
        THEN Outcome(FALSE, "lifecycle failed", failed,
                     IF env.save THEN save(failed) ELSE NoStateFile,
                     before \o execution_result.ran \o << Ran("save", 0, env.save) >>)
        ELSE Outcome(TRUE, "", set_state(recorded, step, mapping.next_state), NoStateFile,
                     before \o execution_result.ran)

execute_keeps_state_on_failure(recorded, step, lifecycle, env, before) ==
    LET mapping == lifecycle_mapping(lifecycle)
        execution_result ==
            IF lifecycle = 5
            THEN and_then(run_gates(env.gates), run_git_commit(env.git))
            ELSE and_then(run_cli_action(env.agent), run_gates(env.gates))
    IN  IF ~execution_result.ok
        THEN Outcome(FALSE, "lifecycle failed", recorded, NoStateFile,
                     before \o execution_result.ran)
        ELSE Outcome(TRUE, "", set_state(recorded, step, mapping.next_state), NoStateFile,
                     before \o execution_result.ran)

execute(recorded, step, lifecycle, env, before) ==
    LET mapping == lifecycle_mapping(lifecycle)
        execution_result ==
            IF lifecycle = 5
            THEN and_then(run_gates(env.gates), run_git_commit(env.git))
            ELSE and_then(run_cli_action(env.agent), run_gates(env.gates))
        failed == set_state(recorded, step, LifecycleError(lifecycle))
    IN  IF ~execution_result.ok
        THEN Outcome(FALSE, "lifecycle failed", failed,
                     IF env.save THEN save(failed) ELSE NoStateFile,
                     before \o execution_result.ran \o << Ran("save", 0, env.save) >>)
        ELSE Outcome(TRUE, "", set_state(recorded, step, mapping.next_state), NoStateFile,
                     before \o execution_result.ran)

\* the checks run_lifecycle makes before it runs anything; "" when it goes on
refusal_ignores_state(recorded, plan, step, lifecycle) ==
    LET mapping == lifecycle_mapping(lifecycle)
    IN  IF ~mapping.ok THEN "invalid lifecycle"
        ELSE IF \A i \in 1..Len(plan) : plan[i] # step THEN "step not found in plan"
        ELSE ""

refusal(recorded, plan, step, lifecycle) ==
    LET mapping == lifecycle_mapping(lifecycle)
        step_state == state_for(recorded, step)
    IN  IF ~mapping.ok THEN "invalid lifecycle"
        ELSE IF step_state # mapping.current_state
                /\ step_state # LifecycleError(lifecycle)
        THEN "step cannot run lifecycle"
        ELSE IF \A i \in 1..Len(plan) : plan[i] # step THEN "step not found in plan"
        ELSE ""

run_lifecycle(recorded, plan, step, lifecycle, env) ==
    LET refused == refusal(recorded, plan, step, lifecycle)
        step_state == state_for(recorded, step)
        diff == IF lifecycle >= 2 THEN write_git_diff(env.diff) ELSE Done(TRUE, << >>)
        resume == IF step_state = LifecycleError(lifecycle)
                  THEN generate_resume_prompt(env.resume)
                  ELSE Done(TRUE, << >>)
        prepared == and_then(diff, resume)
    IN  IF refused # "" THEN Outcome(FALSE, refused, recorded, NoStateFile, << >>)
        ELSE IF ~diff.ok
        THEN Outcome(FALSE, "failed to capture git diff", recorded, NoStateFile, diff.ran)
        ELSE IF ~prepared.ok
        THEN Outcome(FALSE, "command execution failed: resume analysis", recorded,
                     NoStateFile, prepared.ran)
        ELSE execute(recorded, step, lifecycle, env, prepared.ran)

\* ------------------------------------------------------------------------
\* The lifecycle as a state machine: calls of next_action and run_lifecycle
\* in any order, on a plan of two steps
\* ------------------------------------------------------------------------
\* Plan::load gives the step ids in plan order; StepsFile::load_or_sync makes
\* the steps file equal to the plan
PlanSteps == << "1", "2" >>

StepsFile == PlanSteps

\* the step handed to run_lifecycle: a step of the plan or a stale one
StepIds == {"1", "2", "3"}

\* the lifecycle handed over, a u8
Lifecycles == 0..(LastLifecycle + 1)

\* the state files at the start: none, or one left by a run that failed; the
\* stage of a LifecycleError is any u8 the file holds
StateFiles ==
    {NoStateFile} \cup
    {save(id :> LifecycleError(stage)) : id \in {"1", "2"}, stage \in {0, 1, LastLifecycle + 1}}

AgentLists == {<< "not found", "exits 0" >>, << "exits 1" >>}

ResumeLists == {<< "exits 0" >>, << "cannot start" >>}

GateLists == SeqsUpTo({"exits 0", "exits 1"}, MaxGates)

GitEnvs == {GitEnv("cannot start", "exits 0", "exits 0"),
            GitEnv("clean", "exits 0", "exits 0"),
            GitEnv("dirty", "exits 1", "exits 0"),
            GitEnv("dirty", "exits 0", "exits 1"),
            GitEnv("dirty", "exits 0", "exits 0")}

QuietEnv == Env(TRUE, << >>, << >>, << >>, GitEnv("clean", "exits 0", "exits 0"), TRUE)

\* the surroundings that matter to the call, with the gates and the
\* outcomes of the save taken from the sets given
EnvsOver(recorded, step, lifecycle, gate_lists, saves) ==
    IF refusal(recorded, PlanSteps, step, lifecycle) # "" THEN {QuietEnv}
    ELSE {Env(diff, resume, agent, gates, git_env, save_ok) :
            diff \in (IF lifecycle >= 2 THEN BOOLEAN ELSE {TRUE}),
            resume \in (IF state_for(recorded, step) = LifecycleError(lifecycle)
                        THEN ResumeLists ELSE {<< >>}),
            agent \in (IF lifecycle = LastLifecycle THEN {<< >>} ELSE AgentLists),
            gates \in gate_lists,
            git_env \in (IF lifecycle = LastLifecycle THEN GitEnvs ELSE {QuietEnv.git}),
            save_ok \in saves}

Envs(recorded, step, lifecycle) ==
    EnvsOver(recorded, step, lifecycle, GateLists, BOOLEAN)

Call(op, override, step, lifecycle, kind, error, before, gates, ran, saved) ==
    [op |-> op, override |-> override, step |-> step, lifecycle |-> lifecycle,
     kind |-> kind, error |-> error, before |-> before, gates |-> gates, ran |-> ran,
     saved |-> saved]

LifeInit ==
    /\ \E file \in StateFiles : state = load(file)
    /\ last_call = NoCall
    /\ failures = 0
    /\ lpc = "ready"
    /\ programs = << >>
    /\ command = NoCommand
    /\ fpc = "off"
    /\ ResolveOff
    /\ DocOff
    /\ SyncOff

LifeFrame ==
    /\ UNCHANGED << lpc, programs, command, fpc >>
    /\ UNCHANGED << resolve_vars, doc_vars, sync_vars >>

\* one call of next_action
NextActionCall ==
    /\ lpc = "ready"
    /\ \E lifecycle_override \in {NoOverride} \cup {Override(k) : k \in Lifecycles} :
          LET found == next_action(StepsFile, state, lifecycle_override)
          IN  last_call' = Call("next_action", lifecycle_override, found.step,
                                found.lifecycle, found.kind, found.error, state,
                                0, << >>, NoStateFile)
    /\ UNCHANGED << state, failures >>
    /\ LifeFrame

\* what the calls of run_lifecycle for the step and the lifecycle can give,
\* each with the number of gates configured
Outcomes(recorded, step, lifecycle) ==
    {[outcome |-> run_lifecycle(recorded, PlanSteps, step, lifecycle, env),
      gates |-> Len(env.gates)] : env \in Envs(recorded, step, lifecycle)}

\* one call of run_lifecycle
Ran_lifecycle(step, lifecycle, outcome, gates) ==
    /\ state' = outcome.state
    /\ last_call' = Call("run_lifecycle", NoOverride, step, lifecycle,
                         IF outcome.ok THEN "Ok" ELSE "Err", outcome.error,
                         state, gates, outcome.ran, outcome.saved)

RunLifecycle ==
    /\ lpc = "ready"
    /\ \E step \in StepIds, lifecycle \in Lifecycles :
          \E given \in Outcomes(state, step, lifecycle) :
              Ran_lifecycle(step, lifecycle, given.outcome, given.gates)
    /\ UNCHANGED failures
    /\ LifeFrame

LifeNext == NextActionCall \/ RunLifecycle

SpecLife == LifeInit /\ [][LifeNext]_vars

\* ------------------------------------------------------------------------
\* The lifecycle: properties
\* ------------------------------------------------------------------------
\* the states of a step that goes through every stage, in order
StageOrder == << Planned, Implemented, ImplementedChecked, ImplementedTested,
                 ImplementedFinalized, ImplementedCommitted >>

\* how many stages a step has passed; a step that failed in a stage has
\* passed the stages before it
Rank(step_state) ==
    IF step_state.kind = "LifecycleError" THEN step_state.stage - 1
    ELSE (CHOOSE i \in 1..Len(StageOrder) : StageOrder[i] = step_state) - 1

Was(id) == state_for(last_call.before, id)

Now(id) == state_for(state, id)

RanLifecycle == last_call.op = "run_lifecycle"

\* C32: no call of run_lifecycle takes a step back or over a stage: a step
\* passes at most one stage in a call, only the step of a call that succeeds
\* passes one, and a successful run_lifecycle(k) finds its step in the source
\* state of stage k or in LifecycleError(k) and leaves it in the target state
\* of stage k.
C32_Progression ==
    RanLifecycle =>
        /\ \A id \in StepIds :
              /\ Rank(Now(id)) - Rank(Was(id)) \in {0, 1}
              /\ Rank(Now(id)) > Rank(Was(id)) =>
                    last_call.kind = "Ok" /\ id = last_call.step
        /\ last_call.kind = "Ok" =>
              /\ last_call.lifecycle \in 1..LastLifecycle
              /\ Was(last_call.step) \in {StageOrder[last_call.lifecycle],
                                          LifecycleError(last_call.lifecycle)}
              /\ Now(last_call.step) = StageOrder[last_call.lifecycle + 1]

\* C32 witness: the second step is committed by a call that resumes a failed
\* commit, while the first step is still on its way.
C32_Witness ==
    /\ RanLifecycle /\ last_call.kind = "Ok"
    /\ last_call.step = "2" /\ last_call.lifecycle = 5
    /\ Was("2") = LifecycleError(5)
    /\ Now("2") = ImplementedCommitted
    /\ Now("1") = LifecycleError(3)

\* the call was for a lifecycle that is none, for a step that is not in the
\* plan, or for a step that is in neither the source state nor the error
\* state of the lifecycle
Unfit ==
    \/ last_call.lifecycle \notin 1..LastLifecycle
    \/ \A i \in 1..Len(PlanSteps) : PlanSteps[i] # last_call.step
    \/ /\ Was(last_call.step) # StageOrder[last_call.lifecycle]
       /\ Was(last_call.step) # LifecycleError(last_call.lifecycle)

\* C33: a call of run_lifecycle for a lifecycle outside 1..5, for a step that
\* is not in the plan, or for a step in neither the source state nor the
\* error state of the lifecycle returns an error, runs nothing, writes no
\* state file and leaves the state of every step as it was; and no call of
\* run_lifecycle changes a step that is ImplementedCommitted.
C33_UnfitCallRefused ==
    RanLifecycle =>
        /\ Unfit => /\ last_call.kind = "Err"
                    /\ last_call.ran = << >>
                    /\ last_call.saved = NoStateFile
                    /\ state = last_call.before
        /\ \A id \in StepIds :
              Was(id) = ImplementedCommitted => Now(id) = ImplementedCommitted

\* C33 witness: run_lifecycle(5) is refused for a committed step.
C33_Witness ==
    /\ RanLifecycle /\ last_call.kind = "Err"
    /\ last_call.step = "1" /\ last_call.lifecycle = 5
    /\ Was("1") = ImplementedCommitted
    /\ last_call.ran = << >>
    /\ state = last_call.before

CommitCalls == {"git status", "git add", "git commit"}

\* the places of last_call.ran before place i where a gate ran
GatesBefore(i) == {j \in 1..(i - 1) : last_call.ran[j].what = "gate"}

\* C37: in what run_lifecycle runs, an agent action is of lifecycles 1 to 4
\* and the git calls of the commit are of lifecycle 5; a gate of lifecycles 1
\* to 4 runs after an agent action that succeeded; the gates run in the
\* configured order, each after all the gates before it have passed; a git
\* call of the commit runs after every configured gate has passed; and the
\* call takes the step to the target state of the lifecycle only if it
\* returned Ok, every configured gate ran and passed, the agent action
\* succeeded (lifecycles 1 to 4) and no git call failed (lifecycle 5).
C37_GateOrdering ==
    RanLifecycle =>
        LET ran == last_call.ran
            k == last_call.lifecycle
        IN  /\ \A i \in 1..Len(ran) :
                  /\ ran[i].what = "agent action" => k \in 1..(LastLifecycle - 1)
                  /\ ran[i].what = "gate" =>
                        /\ ran[i].n = Cardinality(GatesBefore(i)) + 1
                        /\ ran[i].n <= last_call.gates
                        /\ \A j \in GatesBefore(i) : ran[j].ok
                        /\ k # LastLifecycle =>
                              \E j \in 1..(i - 1) :
                                  ran[j].what = "agent action" /\ ran[j].ok
                  /\ ran[i].what \in CommitCalls =>
                        /\ k = LastLifecycle
                        /\ Cardinality(GatesBefore(i)) = last_call.gates
                        /\ \A j \in GatesBefore(i) : ran[j].ok
            /\ (/\ k \in 1..LastLifecycle
                /\ Now(last_call.step) # Was(last_call.step)
                /\ Now(last_call.step) = StageOrder[k + 1]) =>
                  /\ last_call.kind = "Ok"
                  /\ Cardinality(GatesBefore(Len(ran) + 1)) = last_call.gates
                  /\ \A i \in 1..Len(ran) : ran[i].ok
                  /\ k # LastLifecycle => \E i \in 1..Len(ran) : ran[i].what = "agent action"
                  /\ k = LastLifecycle => \E i \in 1..Len(ran) : ran[i].what = "git status"

\* C37 witness: lifecycle 5 with two gates; the first passes, the second
\* fails, git is not called and the step is in LifecycleError(5).
C37_Witness ==
    /\ RanLifecycle /\ last_call.kind = "Err"
    /\ last_call.lifecycle = 5 /\ last_call.gates = 2
    /\ Was(last_call.step) = ImplementedFinalized
    /\ \E i \in 1..Len(last_call.ran) :
          /\ last_call.ran[i] = Ran("gate", 1, TRUE)
          /\ last_call.ran[i + 1] = Ran("gate", 2, FALSE)
    /\ \A i \in 1..Len(last_call.ran) : last_call.ran[i].what \notin CommitCalls
    /\ Now(last_call.step) = LifecycleError(5)

\* the agent action, a gate or a git call of the commit failed in the call
ExecutionFailed ==
    /\ RanLifecycle
    /\ \E i \in 1..Len(last_call.ran) :
          /\ last_call.ran[i].what \in {"agent action", "gate"} \cup CommitCalls
          /\ ~last_call.ran[i].ok

\* every step before the step in plan order is ImplementedCommitted
EarlierCommitted(step) ==
    \A i \in 1..Len(PlanSteps) :
        (\E j \in (i + 1)..Len(PlanSteps) : PlanSteps[j] = step) =>
            Now(PlanSteps[i]) = ImplementedCommitted

\* the step and no other was set to the error state of the lifecycle, and
\* the call returned the error
ErrorRecorded ==
    /\ last_call.kind = "Err"
    /\ Now(last_call.step) = LifecycleError(last_call.lifecycle)
    /\ \A id \in StepIds \ {last_call.step} : Now(id) = Was(id)

\* C34 as stated: when the agent action, a gate or the commit fails in
\* run_lifecycle(k), the step is set to LifecycleError(k), the state file is
\* saved with it, the error is returned, no other step changes, and
\* next_action without override then selects the same step with lifecycle k.
C34_FailureRecorded ==
    ExecutionFailed =>
        /\ ErrorRecorded
        /\ last_call.saved = save(state)
        /\ next_action(StepsFile, state, NoOverride)
               = NextAction(last_call.step, last_call.lifecycle)

\* C34 amended: when the agent action, a gate or the commit fails in
\* run_lifecycle(k), the step is set to LifecycleError(k), the error is
\* returned and no other step changes; the save of the state file is
\* attempted last, and the file holds the new state if that save succeeded
\* and is not written otherwise; next_action without override then selects
\* the same step with lifecycle k if every earlier step of the plan is
\* ImplementedCommitted.
C34_FailureRecordedWhenFirst ==
    ExecutionFailed =>
        LET written == last_call.ran[Len(last_call.ran)]
        IN  /\ ErrorRecorded
            /\ written.what = "save"
            /\ last_call.saved = (IF written.ok THEN save(state) ELSE NoStateFile)
            /\ EarlierCommitted(last_call.step) =>
                  next_action(StepsFile, state, NoOverride)
                      = NextAction(last_call.step, last_call.lifecycle)

\* C34 witness: the first step is committed, a gate fails in lifecycle 3 of
\* the second step, the state file is saved and next_action selects the
\* second step with lifecycle 3.
C34_Witness ==
    /\ ExecutionFailed
    /\ last_call.step = "2" /\ last_call.lifecycle = 3
    /\ Was("2") = ImplementedChecked
    /\ Now("1") = ImplementedCommitted
    /\ \E i \in 1..Len(last_call.ran) : last_call.ran[i] = Ran("gate", 1, FALSE)
    /\ last_call.saved = save(state)
    /\ next_action(StepsFile, state, NoOverride) = NextAction("2", 3)

AskedNext == last_call.op = "next_action" /\ ~last_call.override.some

\* the places in the plan of the steps that are not ImplementedCommitted
Uncommitted == {i \in 1..Len(PlanSteps) : Now(PlanSteps[i]) # ImplementedCommitted}

FirstUncommitted == PlanSteps[CHOOSE i \in Uncommitted : \A j \in Uncommitted : i <= j]

\* the call returned the first uncommitted step with the lifecycle of its
\* state: the stage after those it has passed, the failed stage for a
\* LifecycleError
ReturnedFirstUncommitted ==
    /\ last_call.kind = "Some"
    /\ last_call.step = FirstUncommitted
    /\ last_call.lifecycle = Rank(Now(FirstUncommitted)) + 1
    /\ EarlierCommitted(last_call.step)

\* C35 as stated: next_action without override returns None iff every step
\* is ImplementedCommitted, and otherwise the first step in plan order that
\* is not, with the lifecycle matching its state.
C35_FirstUncommitted ==
    AskedNext =>
        /\ last_call.kind = "None" <=> Uncommitted = {}
        /\ Uncommitted # {} => ReturnedFirstUncommitted

\* C35 amended: next_action without override returns None iff every step is
\* ImplementedCommitted; otherwise it returns the first step in plan order
\* that is not, with the lifecycle matching its state, unless the state of
\* that step is a LifecycleError with a stage outside 1..5: then it returns
\* an error.
C35_FirstUncommittedOrError ==
    AskedNext =>
        /\ last_call.kind = "None" <=> Uncommitted = {}
        /\ Uncommitted # {} =>
              IF /\ Now(FirstUncommitted).kind = "LifecycleError"
                 /\ Now(FirstUncommitted).stage \notin 1..LastLifecycle
              THEN last_call.kind = "Err"
              ELSE ReturnedFirstUncommitted

\* C35 witness: the first step is committed and the second failed in
\* lifecycle 4; next_action returns the second step with lifecycle 4.
C35_Witness ==
    /\ AskedNext
    /\ Now("1") = ImplementedCommitted
    /\ Now("2") = LifecycleError(4)
    /\ last_call.kind = "Some" /\ last_call.step = "2" /\ last_call.lifecycle = 4

\* ------------------------------------------------------------------------
\* The lifecycle driver: next_action without override, then run_lifecycle
\* on the step and the lifecycle it returned, again and again. At most
\* MaxFailures of the calls fail; the driver is always scheduled again.
\* ------------------------------------------------------------------------
\* for the driver, the gates after a failing gate and the outcome of the
\* save are left out: the gates are not run and the state file is not read
DriverGateLists ==
    {gates \in GateLists : \A i \in 1..(Len(gates) - 1) : gates[i] = "exits 0"}

DriverInit ==
    /\ \E file \in StateFiles : state = load(file)
    /\ last_call = NoCall
    /\ failures = MaxFailures
    /\ lpc = "ready"
    /\ programs = << >>
    /\ command = NoCommand
    /\ fpc = "off"
    /\ ResolveOff
    /\ DocOff
    /\ SyncOff

Drive ==
    /\ lpc = "ready"
    /\ LET found == next_action(StepsFile, state, NoOverride)
       IN  /\ found.kind = "Some"
           /\ \E env \in EnvsOver(state, found.step, found.lifecycle,
                                   DriverGateLists, {TRUE}) :
                 LET outcome == run_lifecycle(state, PlanSteps, found.step,
                                              found.lifecycle, env)
                 IN  /\ outcome.ok \/ failures > 0
                     /\ failures' = IF outcome.ok THEN failures ELSE failures - 1
                     /\ Ran_lifecycle(found.step, found.lifecycle, outcome,
                                      Len(env.gates))
    /\ LifeFrame

SpecDriver == DriverInit /\ [][Drive]_vars /\ WF_vars(Drive)

AllCommitted == \A i \in 1..Len(PlanSteps) : Now(PlanSteps[i]) = ImplementedCommitted

Finished == AllCommitted /\ next_action(StepsFile, state, NoOverride) = NoAction

\* no recorded state is a LifecycleError with a stage outside 1..5
ValidStages ==
    \A id \in DOMAIN state :
        state[id].kind = "LifecycleError" => state[id].stage \in 1..LastLifecycle

\* C36 as stated: the driver, with finitely many failing calls, reaches a
\* state where every step is ImplementedCommitted and next_action returns
\* None.
C36_DriverFinishes == <>Finished

\* C36 amended: from a state where no step is recorded as a LifecycleError
\* with a stage outside 1..5, the driver, with finitely many failing calls,
\* reaches a state where every step is ImplementedCommitted and next_action
\* returns None.
C36_DriverFinishesFromValidStages == ValidStages ~> Finished

\* C36 witness: every step is committed after all the failures allowed.
C36_Witness ==
    /\ Finished
    /\ failures = 0
    /\ RanLifecycle /\ last_call.kind = "Ok"
    /\ last_call.step = "2" /\ last_call.lifecycle = 5

====
